---- MODULE Spec2Model ----
(***************************************************************************)
(* A model of usdc.js: the JSON-RPC client (wallet/rpc/RPC.ts), the USDC   *)
(* client (wallet/usdc/USDC.ts), the transaction builder                   *)
(* (wallet/transaction/Transaction.ts) and the numeric helpers             *)
(* (util/types.ts).  Every async method is split at its awaits: a call     *)
(* frame holds the position of a suspended call and the values it has      *)
(* captured, and other calls, setURL and overrideContractAddress may run   *)
(* while it is suspended.                                                  *)
(***************************************************************************)
EXTENDS Integers, Sequences, FiniteSets, TLC

\* ------------------------------------------------------------------ bounds
NumSlots == 2
MaxURLChanges == 2
MaxInterval == 2
MaxTimeout == 3
\* polls, sleeps and requests are counted up to MaxPolls, more than a call
\* with a timeout of at most MaxTimeout can make before it times out
MaxPolls == 5
\* the getter calls the call stack holds
MaxStackDepth == 3
\* the longest string handed to bnFromDecimalString
MaxStringLen == 3
\* decimalPlaces of the decimal conversions
MaxDecimalPlaces == 4
\* the largest BN converted to a decimal string and back
MaxBN == 120
\* the wallets of one heap: the parsed one and those selectAccount returns
MaxWallets == 2
\* the permits of the owner that get confirmed on chain
MaxPermitNonce == 2

\* -------------------------------------------------------------- the node(s)
\* RPC.__chainId is `undefined` until the first successful eth_chainId
NoChainId == -1
NoAddress == ""
NoSeparator == "none"

BlankURL == ""
URLs == {"u1", "u2", "u3"}

\* the chain served at each URL; nothing answers at the blank URL
NodeChainId(u) ==
  CASE u = "u1" -> 1
    [] u = "u2" -> 137
    [] u = "u3" -> 999
    [] OTHER -> NoChainId

\* what the contract at `addr` on chain `c` answers to DOMAIN_SEPARATOR()
NodeDomainSeparator(c, addr) == <<"separator", c, addr>>

OverrideAddresses == {"0xCustomDeployment"}

\* ------------------------------------------------------- numbers and strings
\* A JavaScript number or a BN is a record: its sign, the decimal digits of
\* its whole part (most significant first, no leading zero) and of its
\* fraction (no trailing zero); BNs and integers have an empty fraction.
\* A string is the sequence of its characters.
DigitChars == <<"0", "1", "2", "3", "4", "5", "6", "7", "8", "9">>

Num(neg, w, f) == [kind |-> "num", neg |-> neg, w |-> w, f |-> f]
Undefined == [kind |-> "undefined", neg |-> FALSE, w |-> <<>>, f |-> <<>>]
NaN == [kind |-> "NaN", neg |-> FALSE, w |-> <<>>, f |-> <<>>]

Repeat(c, n) == [i \in 1..n |-> c]

RECURSIVE Canon(_)
\* digits without their leading zeros (BN keeps none; zero is one digit)
Canon(ds) ==
  IF Len(ds) = 0 THEN <<0>>
  ELSE IF Len(ds) > 1 /\ ds[1] = 0 THEN Canon(Tail(ds))
  ELSE ds

RECURSIVE DigitsOfInt(_)
DigitsOfInt(n) == IF n < 10 THEN <<n>> ELSE DigitsOfInt(n \div 10) \o <<n % 10>>

\* the number of a small integer literal
Int2Num(n) == IF n < 0 THEN Num(TRUE, DigitsOfInt(0 - n), <<>>) ELSE Num(FALSE, DigitsOfInt(n), <<>>)

DigitAt(ds, i) == IF i <= Len(ds) THEN ds[i] ELSE 0

\* a < b for two whole parts
NatLess(a, b) ==
  \/ Len(a) < Len(b)
  \/ /\ Len(a) = Len(b)
     /\ \E i \in 1..Len(a) : a[i] < b[i] /\ \A j \in 1..(i - 1) : a[j] = b[j]

FracLess(f, g) ==
  \E i \in 1..(IF Len(f) > Len(g) THEN Len(f) ELSE Len(g)) :
    /\ DigitAt(f, i) < DigitAt(g, i)
    /\ \A j \in 1..(i - 1) : DigitAt(f, j) = DigitAt(g, j)

MagLess(x, y) == NatLess(x.w, y.w) \/ (x.w = y.w /\ FracLess(x.f, y.f))

\* x < y of JavaScript (false when either is NaN)
NumLess(x, y) ==
  /\ x.kind = "num" /\ y.kind = "num"
  /\ IF x.neg /\ ~y.neg THEN TRUE
     ELSE IF ~x.neg /\ y.neg THEN FALSE
     ELSE IF x.neg THEN MagLess(y, x)
     ELSE MagLess(x, y)

\* Number.isInteger
IsInteger(x) == x.kind = "num" /\ x.f = <<>>

\* BN.gte
BNGte(a, b) == ~NumLess(a, b)

IsDigitChar(c) == \E d \in 1..10 : DigitChars[d] = c
DigitOfChar(c) == (CHOOSE d \in 1..10 : DigitChars[d] = c) - 1
DigitsOfChars(cs) == [i \in 1..Len(cs) |-> DigitOfChar(cs[i])]

\* `new BN(str)` for an optional "-" followed by decimal digits
BNFromString(str) ==
  IF Len(str) > 0 /\ str[1] = "-"
  THEN Num(Canon(DigitsOfChars(Tail(str))) # <<0>>, Canon(DigitsOfChars(Tail(str))), <<>>)
  ELSE Num(FALSE, Canon(DigitsOfChars(str)), <<>>)

\* `new BN(num)` for an integer below 2^53
BNFromNumber(n) == Num(n.neg, n.w, <<>>)

\* types.ts: ONE_ETHER = 10^18, and `new BN(1e6).mul(ONE_ETHER)`
ONE_ETHER == Num(FALSE, <<1>> \o Repeat(0, 18), <<>>)
MillionEther == Num(FALSE, <<1>> \o Repeat(0, 6) \o Tail(ONE_ETHER.w), <<>>)

\* ensurePositiveDecimalString: not starting with "-", not empty, and
\* matching /^\d*(\.\d*)?$/
DotPositions(s) == {i \in 1..Len(s) : s[i] = "."}
IsPositiveDecimalString(s) ==
  /\ ~(Len(s) > 0 /\ s[1] = "-")
  /\ Len(s) > 0
  /\ \A i \in 1..Len(s) : IsDigitChar(s[i]) \/ s[i] = "."
  /\ Cardinality(DotPositions(s)) <= 1

\* the two parts of decimalNumber.split(".")
WholePart(s) ==
  IF DotPositions(s) = {} THEN s
  ELSE SubSeq(s, 1, (CHOOSE i \in DotPositions(s) : TRUE) - 1)
FractionalPart(s) ==
  IF DotPositions(s) = {} THEN <<>>
  ELSE SubSeq(s, (CHOOSE i \in DotPositions(s) : TRUE) + 1, Len(s))

\* .slice(0, decimalPlaces) without the padding
SliceAndPad_NoPad(cs, decimalPlaces) ==
  [i \in 1..(IF Len(cs) < decimalPlaces THEN Len(cs) ELSE decimalPlaces) |-> cs[i]]

\* .slice(0, decimalPlaces).padEnd(decimalPlaces, "0")
SliceAndPad(cs, decimalPlaces) ==
  [i \in 1..decimalPlaces |-> IF i <= Len(cs) THEN cs[i] ELSE "0"]

\* bnFromDecimalString of a string ensurePositiveDecimalString accepts
BNFromDecimalString(s, decimalPlaces) ==
  LET whole == IF WholePart(s) = <<>> THEN <<"0">> ELSE WholePart(s)
      fractional == SliceAndPad(IF FractionalPart(s) = <<>> THEN <<"0">>
                                ELSE FractionalPart(s), decimalPlaces)
  IN BNFromString(whole \o fractional)

\* Math.floor(gasPriceGwei * 1e9) of a number >= 0: the decimal point moves
\* nine places to the right and the rest of the fraction is dropped
FloorTimes1e9(x) ==
  Num(FALSE, Canon(x.w \o [i \in 1..9 |-> DigitAt(x.f, i)]), <<>>)

VARIABLES
  rpc_url,                        \* RPC._url
  rpc_chainId,                    \* RPC.__chainId
  wallet_rpc,                     \* Wallet._rpc (identity of the RPC object)
  usdc_chainId,                   \* USDC.__chainId
  usdc_contractAddress,           \* ERC20.__contractAddress of the USDC client
  usdc_contractAddressOverridden, \* USDC._contractAddressOverridden
  usdc_domainSeparator,           \* USDC.__domainSeparator
  calls,                          \* suspended client calls, one frame per slot
  epoch,                          \* number of URL replacements so far
  epochChainIdOk,                 \* successful eth_chainId requests issued since the last one
  overrideArg,                    \* argument of the last overrideContractAddress
  separatorEpoch,                 \* epoch in which the cached separator was requested
  lastAddress,                    \* outcome of the last getContractAddress()
  lastSign,                       \* outcome of the last signPermit / signTransferAuthorization
  tx,                             \* the fields of the Transaction
  tx_built,                       \* whether `new Transaction` has returned an object
  tx_threw,                       \* whether the last constructor / setter call threw
  sub,                            \* the suspended Transaction.sign() / submit()
  lastSubmit,                     \* outcome of the last sign() / submit()
  read,                           \* a read of the handle's txHash: getter calls in progress, result
  wait,                           \* the suspended RPC.waitForReceipt()
  lastWait,                       \* outcome of the last waitForReceipt()
  util,                           \* the last call of a utility function: name, argument, outcome
  heap,                           \* the Wallet, RPC and ERC20 objects, the selector cache, the last call
  permit,                         \* nonces(owner) on chain, the suspended signPermit, the last two results
  chain                           \* the node's transaction count of the account, the nonces fetched at that count

rpcVars == <<rpc_url, rpc_chainId, wallet_rpc, epoch, epochChainIdOk>>
usdcVars == <<usdc_chainId, usdc_contractAddress, usdc_contractAddressOverridden,
              usdc_domainSeparator, overrideArg, separatorEpoch, lastAddress, lastSign>>
clientVars == <<rpcVars, usdcVars, calls>>
builderVars == <<tx, tx_built, tx_threw>>
submitVars == <<sub, lastSubmit, read>>
waitVars == <<wait, lastWait>>
auxVars == <<util, heap, permit, chain>>
txVars == <<builderVars, submitVars, waitVars, auxVars>>
baseVars == <<clientVars, builderVars, submitVars, waitVars, chain>>
vars == <<clientVars, txVars>>

Slots == 1..NumSlots

IdleFrame ==
  [op |-> "idle", pc |-> "idle", reqUrl |-> BlankURL, reqEpoch |-> 0,
   startEpoch |-> 0, val |-> NoChainId, addr |-> NoAddress,
   sep |-> NoSeparator, sepEpoch |-> 0]

NoAddressResult ==
  [kind |-> "none", addr |-> NoAddress, chainId |-> NoChainId,
   viaOverride |-> FALSE, expected |-> NoAddress]

NoSignResult ==
  [kind |-> "none", sep |-> NoSeparator, sepEpoch |-> 0, startEpoch |-> 0]

AllIdle == \A i \in Slots : calls[i].op = "idle"

\* ------------------------------------------------- USDC.getContractAddress
SupportedChainIds == {1, 3, 4, 5, 137, 80001}

\* the switch of getContractAddress
USDCAddress(chainId) ==
  CASE chainId = 1 -> "0xA0b86991c6218b36c1d19D4a2e9Eb0cE3606eB48"
    [] chainId = 3 -> "0x07865c6E87B9F70255377e024ace6630C1Eaa37F"
    [] chainId = 4 -> "0x705de9dc3ad85e072ab34cf6850e6b2bd317ccc1"
    [] chainId = 5 -> "0x2f3a40a3db8a7e3d09b0adfefbce4f6f81927557"
    [] chainId = 137 -> "0x2791Bca1f2de4661ED88A30C99A7a9449Aa84174"
    [] chainId = 80001 -> "0xe6b8a5CF854791412c1f6EFC7CAf629f5Df1c747"
    [] OTHER -> NoAddress

\* `!this.__contractAddress || chainId !== this.__chainId`
AddressStale(chainId) ==
  usdc_contractAddress = NoAddress \/ chainId # usdc_chainId

\* the default branch of the switch: `throw new Error("Unknown chain ID")`
ResolveThrows(chainId) ==
  AddressStale(chainId) /\ chainId \notin SupportedChainIds

\* the value `return this.__contractAddress` gives after the switch
ResolvedAddress(chainId) ==
  IF AddressStale(chainId) THEN USDCAddress(chainId) ELSE usdc_contractAddress

\* the part of getContractAddress that runs once getChainId has yielded chainId
ResolveContractAddress(chainId) ==
  /\ usdc_chainId' = IF AddressStale(chainId) THEN chainId ELSE usdc_chainId
  /\ usdc_contractAddress' =
       IF ResolveThrows(chainId) THEN usdc_contractAddress ELSE ResolvedAddress(chainId)
  /\ lastAddress' =
       IF ResolveThrows(chainId)
       THEN [kind |-> "err", addr |-> NoAddress, chainId |-> chainId,
             viaOverride |-> FALSE, expected |-> NoAddress]
       ELSE [kind |-> "ok", addr |-> ResolvedAddress(chainId), chainId |-> chainId,
             viaOverride |-> FALSE, expected |-> NoAddress]

\* `if (this._contractAddressOverridden) return this.__contractAddress`
OverriddenResult ==
  [kind |-> "ok", addr |-> usdc_contractAddress, chainId |-> NoChainId,
   viaOverride |-> TRUE, expected |-> overrideArg]

\* ----------------------------------------------------------- RPC.getChainId
\* `typeof this.__chainId !== "number"`
ChainIdCached == rpc_chainId # NoChainId

\* the frame of a call that has just entered getChainId: with the cache empty
\* callMethod("eth_chainId") is sent to the URL of that moment, otherwise the
\* cached value is what the awaiting caller will resume with
EnterGetChainId(f) ==
  IF ChainIdCached
  THEN [f EXCEPT !.pc = "gotChainId", !.val = rpc_chainId]
  ELSE [f EXCEPT !.pc = "eth_chainId", !.reqUrl = rpc_url, !.reqEpoch = epoch]

\* a getDomainSeparator that would never use its cache
SeparatorCached_Never == FALSE

\* `if (!this.__domainSeparator)` of getDomainSeparator
SeparatorCached == usdc_domainSeparator # NoSeparator

\* the number of bytes the contract at `addr` on chain `c` can answer to
\* DOMAIN_SEPARATOR(): none (the call yields "0x") or the 32 of a bytes32; the
\* custom deployment on chain 137 has another ABI and answers with 64 bytes,
\* or none
NodeSeparatorAnswers(c, addr) ==
  IF c = 137 /\ addr \in OverrideAddresses THEN {0, 64} ELSE {0, 32}

\* `Buffer.isBuffer(domainSeparator) && domainSeparator.length === 32`, on the
\* value decodeABIValue("bytes32", data) returns: the first 32 bytes of the
\* answer, or all of a shorter one
SeparatorValid(answerBytes) ==
  (IF answerBytes < 32 THEN answerBytes ELSE 32) = 32

\* `new RPC(url)`
InitRPC(url) ==
  /\ rpc_url = url
  /\ rpc_chainId = NoChainId
  /\ wallet_rpc = 1
  /\ epoch = 0
  /\ epochChainIdOk = 0

\* `new USDC(account, rpc)`
InitUSDC ==
  /\ usdc_chainId = NoChainId
  /\ usdc_contractAddress = NoAddress
  /\ usdc_contractAddressOverridden = FALSE
  /\ usdc_domainSeparator = NoSeparator
  /\ calls = [i \in Slots |-> IdleFrame]
  /\ overrideArg = NoAddress
  /\ separatorEpoch = 0
  /\ lastAddress = NoAddressResult
  /\ lastSign = NoSignResult

\* a setURL that would leave the cached chain id in place
SetURL_KeepsChainId(u) ==
  /\ epoch < MaxURLChanges
  /\ rpc_url' = u
  /\ epoch' = epoch + 1
  /\ epochChainIdOk' = 0
  /\ UNCHANGED <<rpc_chainId, wallet_rpc, usdcVars, calls>>

\* RPC.setURL(url)
SetURL(u) ==
  /\ epoch < MaxURLChanges
  /\ rpc_url' = u
  /\ rpc_chainId' = NoChainId
  /\ epoch' = epoch + 1
  /\ epochChainIdOk' = 0
  /\ UNCHANGED <<wallet_rpc, usdcVars, calls>>

\* Wallet.connect(rpcURL): `this._rpc.setURL(rpcURL); return this`
Connect(u) == SetURL(u)

\* USDC.overrideContractAddress(address)
OverrideContractAddress(a) ==
  /\ usdc_contractAddress' = a
  /\ usdc_contractAddressOverridden' = TRUE
  /\ overrideArg' = a
  /\ UNCHANGED <<rpcVars, calls, usdc_chainId, usdc_domainSeparator,
                 separatorEpoch, lastAddress, lastSign>>

\* RPC.getChainId() called by the user: answered from the cache, or suspended
\* on eth_chainId
GetChainId(i) ==
  /\ calls[i].op = "idle"
  /\ IF ChainIdCached
     THEN UNCHANGED calls
     ELSE calls' = [calls EXCEPT ![i] =
            EnterGetChainId([IdleFrame EXCEPT !.op = "getChainId", !.startEpoch = epoch])]
  /\ UNCHANGED <<rpcVars, usdcVars>>

\* USDC.getContractAddress() called by the user, up to `await getChainId()`
GetContractAddress(i) ==
  /\ calls[i].op = "idle"
  /\ IF usdc_contractAddressOverridden
     THEN /\ lastAddress' = OverriddenResult
          /\ UNCHANGED calls
     ELSE /\ calls' = [calls EXCEPT ![i] =
               EnterGetChainId([IdleFrame EXCEPT !.op = "getContractAddress",
                                                 !.startEpoch = epoch])]
          /\ UNCHANGED lastAddress
  /\ UNCHANGED <<rpcVars, usdc_chainId, usdc_contractAddress,
                 usdc_contractAddressOverridden, usdc_domainSeparator,
                 overrideArg, separatorEpoch, lastSign>>

\* USDC.signPermit / signTransferAuthorization, up to the first await of
\* getDomainSeparator
Sign(i) ==
  /\ calls[i].op = "idle"
  /\ LET f == [IdleFrame EXCEPT !.op = "sign", !.startEpoch = epoch] IN
     IF SeparatorCached
     THEN /\ calls' = [calls EXCEPT ![i] =
               [f EXCEPT !.pc = "signing", !.sep = usdc_domainSeparator,
                         !.sepEpoch = separatorEpoch]]
          /\ UNCHANGED lastAddress
     ELSE IF usdc_contractAddressOverridden
     THEN /\ calls' = [calls EXCEPT ![i] =
               [f EXCEPT !.pc = "gotAddress", !.addr = usdc_contractAddress]]
          /\ lastAddress' = OverriddenResult
     ELSE /\ calls' = [calls EXCEPT ![i] = EnterGetChainId(f)]
          /\ UNCHANGED lastAddress
  /\ UNCHANGED <<rpcVars, usdc_chainId, usdc_contractAddress,
                 usdc_contractAddressOverridden, usdc_domainSeparator,
                 overrideArg, separatorEpoch, lastSign>>

\* the node answers eth_chainId: getChainId stores and returns the decoded id
ChainIdResult(i) ==
  /\ calls[i].pc = "eth_chainId"
  /\ NodeChainId(calls[i].reqUrl) # NoChainId
  /\ rpc_chainId' = NodeChainId(calls[i].reqUrl)
  /\ epochChainIdOk' =
       IF calls[i].reqEpoch = epoch THEN epochChainIdOk + 1 ELSE epochChainIdOk
  /\ calls' = [calls EXCEPT ![i] =
       IF calls[i].op = "getChainId" THEN IdleFrame
       ELSE [calls[i] EXCEPT !.pc = "gotChainId",
                             !.val = NodeChainId(calls[i].reqUrl)]]
  /\ UNCHANGED <<rpc_url, wallet_rpc, epoch, usdcVars>>

\* callMethod throws (no node, an HTTP or JSON-RPC error): the error propagates
\* through every awaiting caller
RequestError(i) ==
  /\ calls[i].pc \in {"eth_chainId", "eth_call"}
  /\ calls' = [calls EXCEPT ![i] = IdleFrame]
  /\ lastAddress' =
       IF calls[i].pc = "eth_chainId" /\ calls[i].op \in {"getContractAddress", "sign"}
       THEN [NoAddressResult EXCEPT !.kind = "err"]
       ELSE lastAddress
  /\ lastSign' =
       IF calls[i].op = "sign"
       THEN [NoSignResult EXCEPT !.kind = "err", !.startEpoch = calls[i].startEpoch]
       ELSE lastSign
  /\ UNCHANGED <<rpcVars, usdc_chainId, usdc_contractAddress,
                 usdc_contractAddressOverridden, usdc_domainSeparator,
                 overrideArg, separatorEpoch>>

\* getContractAddress resumes with the chain id getChainId yielded
ResumeContractAddress(i) ==
  /\ calls[i].pc = "gotChainId"
  /\ ResolveContractAddress(calls[i].val)
  /\ calls' = [calls EXCEPT ![i] =
       IF calls[i].op = "sign" /\ ~ResolveThrows(calls[i].val)
       THEN [calls[i] EXCEPT !.pc = "gotAddress", !.addr = ResolvedAddress(calls[i].val)]
       ELSE IdleFrame]
  /\ lastSign' =
       IF calls[i].op = "sign" /\ ResolveThrows(calls[i].val)
       THEN [NoSignResult EXCEPT !.kind = "err", !.startEpoch = calls[i].startEpoch]
       ELSE lastSign
  /\ UNCHANGED <<rpcVars, usdc_contractAddressOverridden, usdc_domainSeparator,
                 overrideArg, separatorEpoch>>

\* getDomainSeparator resumes with the contract address and sends
\* ethCall(contractAddress, "DOMAIN_SEPARATOR()")
CallDomainSeparator(i) ==
  /\ calls[i].pc = "gotAddress"
  /\ calls' = [calls EXCEPT ![i] =
       [calls[i] EXCEPT !.pc = "eth_call", !.reqUrl = rpc_url, !.reqEpoch = epoch]]
  /\ UNCHANGED <<rpcVars, usdcVars>>

\* the node answers the eth_call: a 32-byte value is cached and returned,
\* anything else makes getDomainSeparator throw
DomainSeparatorResult(i, answerBytes) ==
  /\ calls[i].pc = "eth_call"
  /\ NodeChainId(calls[i].reqUrl) # NoChainId
  /\ answerBytes \in NodeSeparatorAnswers(NodeChainId(calls[i].reqUrl), calls[i].addr)
  /\ IF SeparatorValid(answerBytes)
     THEN /\ usdc_domainSeparator' =
               NodeDomainSeparator(NodeChainId(calls[i].reqUrl), calls[i].addr)
          /\ separatorEpoch' = calls[i].reqEpoch
          /\ calls' = [calls EXCEPT ![i] =
               [calls[i] EXCEPT !.pc = "signing",
                  !.sep = NodeDomainSeparator(NodeChainId(calls[i].reqUrl), calls[i].addr),
                  !.sepEpoch = calls[i].reqEpoch]]
          /\ UNCHANGED lastSign
     ELSE /\ calls' = [calls EXCEPT ![i] = IdleFrame]
          /\ lastSign' =
               [NoSignResult EXCEPT !.kind = "err", !.startEpoch = calls[i].startEpoch]
          /\ UNCHANGED <<usdc_domainSeparator, separatorEpoch>>
  /\ UNCHANGED <<rpcVars, usdc_chainId, usdc_contractAddress,
                 usdc_contractAddressOverridden, overrideArg, lastAddress>>

\* the rest of signPermit / signTransferAuthorization: the digest is built
\* over the separator the call holds and signed, unless a later step throws
FinishSign(i, ok) ==
  /\ calls[i].pc = "signing"
  /\ calls' = [calls EXCEPT ![i] = IdleFrame]
  /\ lastSign' =
       IF ok
       THEN [kind |-> "ok", sep |-> calls[i].sep, sepEpoch |-> calls[i].sepEpoch,
             startEpoch |-> calls[i].startEpoch]
       ELSE [NoSignResult EXCEPT !.kind = "err", !.startEpoch = calls[i].startEpoch]
  /\ UNCHANGED <<rpcVars, usdc_chainId, usdc_contractAddress,
                 usdc_contractAddressOverridden, usdc_domainSeparator,
                 overrideArg, separatorEpoch, lastAddress>>

\* a step of a suspended call
Resume(i) ==
  \/ ChainIdResult(i)
  \/ RequestError(i)
  \/ ResumeContractAddress(i)
  \/ CallDomainSeparator(i)
  \/ \E answerBytes \in {0, 32, 64} : DomainSeparatorResult(i, answerBytes)
  \/ \E ok \in BOOLEAN : FinishSign(i, ok)

Configure ==
  \/ \E u \in URLs : SetURL(u)
  \/ \E u \in URLs : Connect(u)
  \/ \E a \in OverrideAddresses : OverrideContractAddress(a)

\* ------------------------------------------------------ hexadecimal strings
NullStr == <<"null">>
HexChars == <<"0", "1", "2", "3", "4", "5", "6", "7", "8", "9",
              "a", "b", "c", "d", "e", "f", "A", "B", "C", "D", "E", "F">>
IsHexChar(c) == \E k \in 1..Len(HexChars) : HexChars[k] = c

\* str.replace(/^0x/, "")
strip0x(s) == IF Len(s) >= 2 /\ s[1] = "0" /\ s[2] = "x" THEN SubSeq(s, 3, Len(s)) ELSE s
\* str.replace(/^(0x)?/, "0x")
prepend0x(s) == <<"0", "x">> \o strip0x(s)
\* /^(0x)?[a-fA-F0-9]*$/
isHexString(s) == \A i \in 1..Len(strip0x(s)) : IsHexChar(strip0x(s)[i])

\* ensureHexString(hex, varName, addPrefix, evenLength): whether it throws,
\* and what it returns when it does not
ensureHexStringThrows(hex) == hex = NullStr \/ ~isHexString(strip0x(hex))
ensureHexString(hex, addPrefix, evenLength) ==
  LET h == IF evenLength /\ Len(strip0x(hex)) % 2 # 0
           THEN <<"0">> \o strip0x(hex) ELSE strip0x(hex)
  IN IF addPrefix THEN prepend0x(h) ELSE strip0x(h)

\* ---------------------------------------------------------------- addresses
\* EthereumAddress.isValid / checksumAddress (wallet.ts, an external library)
\* on the addresses the model uses
NullAddr == "null"
LowerCaseAddress == "0xa0b86991c6218b36c1d19d4a2e9eb0ce3606eb48"
DigitAddress == "0x1111111111111111111111111111111111111111"
BadAddress == "0x123"
isValidAddress(a) ==
  a \in {LowerCaseAddress, DigitAddress} \/ a \in {USDCAddress(c) : c \in SupportedChainIds}
checksumAddress(a) == IF a = LowerCaseAddress THEN USDCAddress(1) ELSE a

\* ---------------------------------------------------- Transaction (builder)
\* program constants of the setters
MinGasLimit == 21000
MaxGasLimit == 20000000
MaxGwei == 1000
\* 1000e9
MaxGasPriceWei == Num(FALSE, <<1>> \o Repeat(0, 12), <<>>)

\* the fields of a Transaction: _to, _value, _gasLimit, _gasPrice, _data,
\* _nonce, _toPromise, _dataPromise
NewTx ==
  [to |-> NullAddr, value |-> Undefined, gasLimit |-> Undefined,
   gasPrice |-> Undefined, data |-> NullStr, nonce |-> Undefined,
   toPromise |-> FALSE, dataPromise |-> FALSE]

Returns(t) == [tx |-> t, threw |-> FALSE]
Throws(t) == [tx |-> t, threw |-> TRUE]

setTo(t, to) ==
  IF to = NullAddr THEN Returns([t EXCEPT !.to = NullAddr])
  ELSE IF ~isValidAddress(to) THEN Throws(t)
  ELSE Returns([t EXCEPT !.to = checksumAddress(to)])

\* value.isNeg() / value.gte(new BN(1e6).mul(ONE_ETHER))
ValueInRange(value) == ~value.neg /\ ~BNGte(value, MillionEther)

setWeiValue(t, weiValue) ==
  IF weiValue = NullStr THEN Returns([t EXCEPT !.value = Undefined])
  ELSE IF ~ValueInRange(BNFromString(weiValue)) THEN Throws(t)
  ELSE Returns([t EXCEPT !.value = BNFromString(weiValue)])

\* a setETHValue that stores the value before it checks the upper bound
setETHValue_StoresFirst(t, ethValue) ==
  IF ethValue = NullStr THEN Returns([t EXCEPT !.value = Undefined])
  ELSE IF ~IsPositiveDecimalString(ethValue) THEN Throws(t)
  ELSE IF BNGte(BNFromDecimalString(ethValue, 18), MillionEther)
  THEN Throws([t EXCEPT !.value = BNFromDecimalString(ethValue, 18)])
  ELSE Returns([t EXCEPT !.value = BNFromDecimalString(ethValue, 18)])

setETHValue(t, ethValue) ==
  IF ethValue = NullStr THEN Returns([t EXCEPT !.value = Undefined])
  ELSE IF ~IsPositiveDecimalString(ethValue) THEN Throws(t)
  ELSE IF BNGte(BNFromDecimalString(ethValue, 18), MillionEther) THEN Throws(t)
  ELSE Returns([t EXCEPT !.value = BNFromDecimalString(ethValue, 18)])

\* the three checks of setGasLimit
GasLimitInRange(gasLimit) ==
  /\ IsInteger(gasLimit)
  /\ ~NumLess(gasLimit, Int2Num(MinGasLimit))
  /\ ~NumLess(Int2Num(MaxGasLimit), gasLimit)

setGasLimit(t, gasLimit) ==
  IF gasLimit = Undefined THEN Returns([t EXCEPT !.gasLimit = Undefined])
  ELSE IF ~GasLimitInRange(gasLimit) THEN Throws(t)
  ELSE Returns([t EXCEPT !.gasLimit = gasLimit])

\* the three checks of setGasPriceWei
GasPriceWeiInRange(gasPriceWei) ==
  /\ IsInteger(gasPriceWei)
  /\ ~NumLess(gasPriceWei, Int2Num(0))
  /\ ~NumLess(MaxGasPriceWei, gasPriceWei)

setGasPriceWei(t, gasPriceWei) ==
  IF gasPriceWei = Undefined THEN Returns([t EXCEPT !.gasPrice = Undefined])
  ELSE IF ~GasPriceWeiInRange(gasPriceWei) THEN Throws(t)
  ELSE Returns([t EXCEPT !.gasPrice = BNFromNumber(gasPriceWei)])

\* the checks of setGasPriceGwei without the upper one
GasPriceGweiInRange_NoMax(gasPriceGwei) ==
  /\ ~NumLess(gasPriceGwei, Int2Num(0))
  /\ gasPriceGwei.kind = "num"

\* the checks of setGasPriceGwei; NaN passes both comparisons and makes
\* `new BN(NaN)` throw
GasPriceGweiInRange(gasPriceGwei) ==
  /\ ~NumLess(gasPriceGwei, Int2Num(0))
  /\ ~NumLess(Int2Num(MaxGwei), gasPriceGwei)
  /\ gasPriceGwei.kind = "num"

setGasPriceGwei(t, gasPriceGwei) ==
  IF gasPriceGwei = Undefined THEN Returns([t EXCEPT !.gasPrice = Undefined])
  ELSE IF ~GasPriceGweiInRange(gasPriceGwei) THEN Throws(t)
  ELSE Returns([t EXCEPT !.gasPrice = FloorTimes1e9(gasPriceGwei)])

setData(t, data) ==
  IF data = NullStr THEN Returns([t EXCEPT !.data = NullStr])
  ELSE IF ensureHexStringThrows(data) THEN Throws(t)
  ELSE Returns([t EXCEPT !.data = ensureHexString(data, TRUE, FALSE)])

setNonce(t, nonce) ==
  IF nonce = Undefined THEN Returns([t EXCEPT !.nonce = Undefined])
  ELSE IF ~IsInteger(nonce) THEN Throws(t)
  ELSE Returns([t EXCEPT !.nonce = nonce])

\* truthiness and typeof of an option
Truthy(s) == s # NullStr /\ s # <<>>
IsString(s) == s # NullStr
IsNumber(n) == n # Undefined

\* the k-th statement of the constructor, run on the object r.tx the earlier
\* statements have left; it is skipped once one of them has thrown
ConstructorStatement(k, r, o) ==
  IF r.threw THEN r
  ELSE CASE k = 1 -> IF o.to = NullAddr THEN r ELSE setTo(r.tx, o.to)
         [] k = 2 -> IF Truthy(o.weiValue) /\ Truthy(o.ethValue) THEN Throws(r.tx) ELSE r
         [] k = 3 -> IF IsString(o.weiValue) THEN setWeiValue(r.tx, o.weiValue) ELSE r
         [] k = 4 -> IF IsString(o.ethValue) THEN setETHValue(r.tx, o.ethValue) ELSE r
         [] k = 5 -> IF IsNumber(o.gasLimit) THEN setGasLimit(r.tx, o.gasLimit) ELSE r
         [] k = 6 -> IF IsNumber(o.gasPriceWei) /\ IsNumber(o.gasPriceGwei)
                     THEN Throws(r.tx) ELSE r
         [] k = 7 -> IF IsNumber(o.gasPriceWei)
                     THEN setGasPriceWei(r.tx, o.gasPriceWei) ELSE r
         [] k = 8 -> IF IsNumber(o.gasPriceGwei)
                     THEN setGasPriceGwei(r.tx, o.gasPriceGwei) ELSE r
         [] k = 9 -> IF IsString(o.data) THEN setData(r.tx, o.data) ELSE r
         [] OTHER -> Returns([r.tx EXCEPT !.toPromise = o.toPromise,
                                          !.dataPromise = o.dataPromise])

RECURSIVE ConstructUpTo(_, _)
\* the object after the first k statements of the constructor
ConstructUpTo(k, o) ==
  IF k = 0 THEN Returns(NewTx)
  ELSE ConstructorStatement(k, ConstructUpTo(k - 1, o), o)

\* new Transaction(options)
Construct(o) == ConstructUpTo(10, o)

\* ------------------------------------------------- inputs of the builder
WeiValues == {NullStr, <<>>, <<"0">>, <<"1">>, <<"-", "1">>, Repeat("9", 24),
              <<"1">> \o Repeat("0", 24)}
ETHValues == {NullStr, <<>>, <<"0", ".", "5">>, <<"-", "1">>, <<"1", "e", "3">>,
              <<"1">> \o Repeat("0", 6), Repeat("9", 6) \o <<".">> \o Repeat("9", 18)}
GasLimits == {Undefined, NaN, Int2Num(20999), Int2Num(MinGasLimit),
              Num(FALSE, DigitsOfInt(MinGasLimit), <<5>>),
              Int2Num(MaxGasLimit), Int2Num(MaxGasLimit + 1)}
GasPricesWei == {Undefined, NaN, Int2Num(-1), Int2Num(0), Num(FALSE, <<0>>, <<5>>),
                 MaxGasPriceWei, Num(FALSE, <<1>> \o Repeat(0, 11) \o <<1>>, <<>>)}
GasPricesGwei == {Undefined, NaN, Num(TRUE, <<0>>, <<5>>), Int2Num(0),
                  Num(FALSE, <<1>>, <<5>>), Num(FALSE, <<0>>, Repeat(0, 9) \o <<5>>),
                  Int2Num(MaxGwei), Num(FALSE, DigitsOfInt(MaxGwei), <<5>>)}

\* the options given to `new Transaction`
ConstructorOptions ==
  [to : {NullAddr, LowerCaseAddress, BadAddress},
   weiValue : {NullStr, <<>>, <<"1">>, <<"1">> \o Repeat("0", 24)},
   ethValue : {NullStr, <<"0", ".", "5">>},
   gasLimit : {Undefined, Int2Num(MinGasLimit), Int2Num(20999)},
   gasPriceWei : {Undefined, Int2Num(0)},
   gasPriceGwei : {Undefined, Num(FALSE, <<1>>, <<5>>), Num(FALSE, DigitsOfInt(MaxGwei), <<5>>)},
   data : {NullStr, <<"z", "z">>},
   toPromise : BOOLEAN,
   dataPromise : {FALSE}]

\* ------------------------------------------------------ builder actions
\* `new Transaction(options)`: a constructor that throws yields no object
New(o) ==
  /\ ~tx_built
  /\ LET r == Construct(o) IN
       /\ tx' = r.tx
       /\ tx_built' = ~r.threw
       /\ tx_threw' = r.threw

\* a setter call on the built transaction: the fields it leaves and whether it threw
Apply(r) ==
  /\ tx_built
  /\ tx' = r.tx
  /\ tx_threw' = r.threw
  /\ UNCHANGED tx_built

SetTo(to) == Apply(setTo(tx, to))
SetWeiValue(weiValue) == Apply(setWeiValue(tx, weiValue))
SetETHValue(ethValue) == Apply(setETHValue(tx, ethValue))
SetGasLimit(gasLimit) == Apply(setGasLimit(tx, gasLimit))
SetGasPriceWei(gasPriceWei) == Apply(setGasPriceWei(tx, gasPriceWei))
SetGasPriceGwei(gasPriceGwei) == Apply(setGasPriceGwei(tx, gasPriceGwei))
SetData(data) == Apply(setData(tx, data))
SetNonce(nonce) == Apply(setNonce(tx, nonce))

NextBuilder ==
  \/ \E o \in ConstructorOptions : New(o) /\ UNCHANGED <<auxVars, clientVars, submitVars, waitVars>>
  \/ \E to \in {NullAddr, LowerCaseAddress, DigitAddress, BadAddress} :
       SetTo(to) /\ UNCHANGED <<auxVars, clientVars, submitVars, waitVars>>
  \/ \E w \in WeiValues : SetWeiValue(w) /\ UNCHANGED <<auxVars, clientVars, submitVars, waitVars>>
  \/ \E e \in ETHValues : SetETHValue(e) /\ UNCHANGED <<auxVars, clientVars, submitVars, waitVars>>
  \/ \E g \in GasLimits : SetGasLimit(g) /\ UNCHANGED <<auxVars, clientVars, submitVars, waitVars>>
  \/ \E p \in GasPricesWei : SetGasPriceWei(p) /\ UNCHANGED <<auxVars, clientVars, submitVars, waitVars>>
  \/ \E p \in GasPricesGwei : SetGasPriceGwei(p) /\ UNCHANGED <<auxVars, clientVars, submitVars, waitVars>>
  \/ \E d \in {NullStr, <<>>, <<"0", "x", "a", "b">>, <<"a", "b", "c">>, <<"z", "z">>} :
       SetData(d) /\ UNCHANGED <<auxVars, clientVars, submitVars, waitVars>>
  \/ \E n \in {Undefined, NaN, Int2Num(0), Int2Num(5), Int2Num(-1), Num(FALSE, <<0>>, <<5>>)} :
       SetNonce(n) /\ UNCHANGED <<auxVars, clientVars, submitVars, waitVars>>

\* ------------------------------------------- Transaction.sign and .submit
\* what the node and the deferred values can yield
NodeNonces == {Int2Num(0), Int2Num(7)}
GasEstimates == {21000, 21001, 30000, 14000000}
\* a deferred value can be rejected: "rejected" stands for the rejection
PromisedTos == {LowerCaseAddress, BadAddress, "rejected"}
PromisedDatas == {<<"0", "x", "a", "b">>, <<"z", "z">>, <<"rejected">>}

\* messages an error can carry
MsgAlreadyKnown == <<"a", "l", "r", "e", "a", "d", "y", " ", "k", "n", "o", "w", "n">>
MsgKNOWN == <<"K", "N", "O", "W", "N">>
MsgImported == <<"T", "x", " ", "I", "m", "p", "o", "r", "t", "e", "d", "!">>
Messages ==
  {MsgAlreadyKnown, MsgKNOWN, MsgImported, <<>>,
   <<"n", "o", "n", "c", "e", " ", "t", "o", "o", " ", "l", "o", "w">>,
   <<"u", "n", "k", "n", "o", "w">>}

\* the `i` flag of a regular expression: letters compare by their lower case
UpperCase == <<"A", "B", "C", "D", "E", "F", "G", "H", "I", "J", "K", "L", "M",
               "N", "O", "P", "Q", "R", "S", "T", "U", "V", "W", "X", "Y", "Z">>
LowerCase == <<"a", "b", "c", "d", "e", "f", "g", "h", "i", "j", "k", "l", "m",
               "n", "o", "p", "q", "r", "s", "t", "u", "v", "w", "x", "y", "z">>
ToLowerCase(c) ==
  IF \E k \in 1..26 : UpperCase[k] = c
  THEN LowerCase[CHOOSE k \in 1..26 : UpperCase[k] = c]
  ELSE c

\* whether `word` occurs somewhere in `s`
Contains(s, word, ignoreCase) ==
  \E k \in 0..(Len(s) - Len(word)) :
    \A j \in 1..Len(word) :
      IF ignoreCase THEN ToLowerCase(s[k + j]) = ToLowerCase(word[j])
      ELSE s[k + j] = word[j]

\* the same match without the `i` flag
MatchesKnownOrImported_CaseSensitive(message) ==
  \/ Contains(message, <<"k", "n", "o", "w", "n">>, FALSE)
  \/ Contains(message, <<"i", "m", "p", "o", "r", "t", "e", "d">>, FALSE)

\* err.message.match(/(known|imported)/i)
MatchesKnownOrImported(message) ==
  \/ Contains(message, <<"k", "n", "o", "w", "n">>, TRUE)
  \/ Contains(message, <<"i", "m", "p", "o", "r", "t", "e", "d">>, TRUE)

\* the condition under which the catch block of submit swallows the error
Swallowed(errClass, message) ==
  errClass = "JSONRPCError" /\ MatchesKnownOrImported(message)

\* the message of the TypeError ensurePositiveInteger throws for num
PositiveIntegerMessage(num) ==
  IF ~IsInteger(num)
  THEN <<"G", "i", "v", "e", "n", " ", "v", "a", "l", "u", "e", " ",
         "i", "s", " ", "n", "o", "t", " ", "a", "n", " ", "i", "n",
         "t", "e", "g", "e", "r">>
  ELSE <<"G", "i", "v", "e", "n", " ", "v", "a", "l", "u", "e", " ",
         "m", "u", "s", "t", " ", "b", "e", " ", "p", "o", "s", "i",
         "t", "i", "v", "e">>

\* ensurePositiveInteger, reached through bufferFromNumber
bufferFromNumberThrows(num) == ~IsInteger(num) \/ NumLess(num, Int2Num(0))

\* the value of a whole part of at most nine digits
RECURSIVE IntOfDigits(_)
IntOfDigits(ds) ==
  IF Len(ds) = 0 THEN 0 ELSE 10 * IntOfDigits(SubSeq(ds, 1, Len(ds) - 1)) + ds[Len(ds)]

\* `gas === 21000 ? gas : gas * 1.5`
GasLimitFromEstimate(gas) ==
  IF gas = MinGasLimit THEN Int2Num(gas)
  ELSE Num(FALSE, DigitsOfInt((3 * gas) \div 2), IF (3 * gas) % 2 = 1 THEN <<5>> ELSE <<>>)

\* keccak256 of a signed transaction
Keccak256(signedTx) == <<"keccak256", signedTx>>

NoSignedTx == <<>>
NoHash == <<>>

\* the locals of a suspended sign() / submit()
IdleSub ==
  [op |-> "idle", pc |-> "idle", chainId |-> NoChainId, to |-> NullAddr,
   data |-> NullStr, nonce |-> Undefined, gasPrice |-> Undefined,
   gasLimit |-> Undefined, gas |-> 0, estimateTo |-> NullAddr,
   estimateData |-> NullStr, signedTx |-> NoSignedTx, txHash |-> NoHash,
   reqs |-> <<>>, waitArgs |-> <<>>]

NoSubmitResult ==
  [kind |-> "none", stage |-> "none", errClass |-> "none", message |-> <<>>,
   signedTx |-> NoSignedTx, txHash |-> NoHash, reqs |-> <<>>, gas |-> 0,
   estimateTo |-> NullAddr, estimateData |-> NullStr, waitArgs |-> <<>>]

\* no read of the handle's txHash made
NoRead == [depth |-> 0, result |-> NoHash]

\* the call moves on to its next await
SubGoes(f) ==
  /\ sub' = f
  /\ UNCHANGED lastSubmit

\* the call rejects: the error reaches the caller and no handle is made; the
\* requests sent and the transaction signed so far stay on record
SubThrows(stage, errClass, message) ==
  /\ sub' = IdleSub
  /\ lastSubmit' = [kind |-> "threw", stage |-> stage, errClass |-> errClass,
                    message |-> message, signedTx |-> sub.signedTx,
                    txHash |-> NoHash, reqs |-> sub.reqs, gas |-> sub.gas,
                    estimateTo |-> sub.estimateTo,
                    estimateData |-> sub.estimateData, waitArgs |-> sub.waitArgs]

\* the bytes of the data field: `data ? bufferFromHexString(data) : Buffer.alloc(0)`
DataBytes(data) == IF data = NullStr THEN <<>> ELSE strip0x(data)

\* the 9 fields hashed for the signature: the chain id and two empty fields
\* stand where v, r and s will go
SigningFields(f, value) ==
  <<f.nonce, f.gasPrice, f.gasLimit, f.to, value, DataBytes(f.data),
    f.chainId, <<>>, <<>>>>

\* a signed transaction whose v leaves the chain id out, as before EIP-155
SignedTx_NoChainId(f, value, recoveryParam) ==
  <<f.nonce, f.gasPrice, f.gasLimit, f.to, value, DataBytes(f.data),
    recoveryParam + 27,
    <<"r", Keccak256(SigningFields(f, value))>>,
    <<"s", Keccak256(SigningFields(f, value))>>>>

\* the 9 fields of the signed transaction: r and s sign the hash of the
\* signing fields, and v is sig.v + chainId * 2 + 8 with sig.v the recovery
\* parameter plus 27
SignedTx(f, value, recoveryParam) ==
  <<f.nonce, f.gasPrice, f.gasLimit, f.to, value, DataBytes(f.data),
    (recoveryParam + 27) + f.chainId * 2 + 8,
    <<"r", Keccak256(SigningFields(f, value))>>,
    <<"s", Keccak256(SigningFields(f, value))>>>>

\* Transaction.sign() / Transaction.submit() called by the user, up to
\* `await this._rpc.getChainId()`
StartSub(op) ==
  /\ tx_built
  /\ sub.pc = "idle"
  /\ sub' = [IdleSub EXCEPT !.op = op, !.pc = "chainId"]
  /\ lastSubmit' = NoSubmitResult
  /\ read' = NoRead
  /\ UNCHANGED <<rpcVars, builderVars>>

TransactionSign == StartSub("sign")
Submit == StartSub("submit")

\* getChainId yields: the cached id, or the answer to eth_chainId, which it caches
SignChainId(ok) ==
  /\ sub.pc = "chainId"
  /\ IF ChainIdCached
     THEN /\ ok
          /\ SubGoes([sub EXCEPT !.pc = "to", !.chainId = rpc_chainId])
          /\ UNCHANGED rpcVars
     ELSE IF ok /\ NodeChainId(rpc_url) # NoChainId
     THEN /\ SubGoes([sub EXCEPT !.pc = "to", !.chainId = NodeChainId(rpc_url),
                                 !.reqs = Append(sub.reqs, "eth_chainId")])
          /\ rpc_chainId' = NodeChainId(rpc_url)
          /\ epochChainIdOk' = epochChainIdOk + 1
          /\ UNCHANGED <<rpc_url, wallet_rpc, epoch>>
     ELSE /\ SubThrows("sign", "Error", <<>>)
          /\ UNCHANGED rpcVars
  /\ UNCHANGED builderVars

\* the deferred `to` taken as it resolves, without ensureValidAddress
SignTo_Unvalidated ==
  /\ sub.pc = "to"
  /\ \/ /\ ~tx.toPromise
        /\ SubGoes([sub EXCEPT !.pc = "data", !.to = tx.to])
     \/ /\ tx.toPromise
        /\ \E to \in PromisedTos :
             IF to = "rejected"
             THEN SubThrows("sign", "Error", <<>>)
             ELSE SubGoes([sub EXCEPT !.pc = "data", !.to = to])
  /\ UNCHANGED <<rpcVars, builderVars>>

\* `let to = this._to; if (this._toPromise) to = ensureValidAddress(await ...)`
SignTo ==
  /\ sub.pc = "to"
  /\ \/ /\ ~tx.toPromise
        /\ SubGoes([sub EXCEPT !.pc = "data", !.to = tx.to])
     \/ /\ tx.toPromise
        /\ \E to \in PromisedTos :
             IF to = "rejected" \/ ~isValidAddress(to)
             THEN SubThrows("sign", "Error", <<>>)
             ELSE SubGoes([sub EXCEPT !.pc = "data", !.to = checksumAddress(to)])
  /\ UNCHANGED <<rpcVars, builderVars>>

\* `let data = this._data; if (this._dataPromise) data = ensureHexString(await ...)`
SignData ==
  /\ sub.pc = "data"
  /\ \/ /\ ~tx.dataPromise
        /\ SubGoes([sub EXCEPT !.pc = "nonce", !.data = tx.data])
     \/ /\ tx.dataPromise
        /\ \E data \in PromisedDatas :
             IF data = <<"rejected">> \/ ensureHexStringThrows(data)
             THEN SubThrows("sign", "Error", <<>>)
             ELSE SubGoes([sub EXCEPT !.pc = "nonce",
                                      !.data = ensureHexString(data, TRUE, FALSE)])
  /\ UNCHANGED <<rpcVars, builderVars>>

\* `this._nonce ??` read as `this._nonce ||`: a nonce of 0 counts as unset
NonceSet_ZeroIsUnset(nonce) == nonce # Undefined /\ nonce # Int2Num(0)

\* the left side of `this._nonce ??` is used: it is neither null nor undefined
NonceSet(nonce) == nonce # Undefined

\* a client that numbers the calls itself: a call made at a count that an
\* earlier call has fetched goes on with the number after that count
SignNonceAt_Numbering(count) ==
  /\ sub.pc = "nonce"
  /\ \/ /\ NonceSet(tx.nonce)
        /\ SubGoes([sub EXCEPT !.pc = "gasPrice", !.nonce = tx.nonce])
     \/ /\ ~NonceSet(tx.nonce)
        /\ \/ SubGoes([sub EXCEPT !.pc = "gasPrice",
                  !.nonce = IF chain.fetched = <<>> THEN count
                            ELSE Num(FALSE, <<count.w[1] + 1>>, <<>>),
                  !.reqs = Append(sub.reqs, "eth_getTransactionCount")])
           \/ SubThrows("sign", "JSONRPCError", MsgAlreadyKnown)
  /\ UNCHANGED <<rpcVars, builderVars>>

\* a sign() that keeps the count it fetched as the builder's nonce
SignNonceAt_Stores(count) ==
  /\ sub.pc = "nonce"
  /\ \/ /\ NonceSet(tx.nonce)
        /\ SubGoes([sub EXCEPT !.pc = "gasPrice", !.nonce = tx.nonce])
        /\ UNCHANGED tx
     \/ /\ ~NonceSet(tx.nonce)
        /\ \/ /\ SubGoes([sub EXCEPT !.pc = "gasPrice", !.nonce = count,
                     !.reqs = Append(sub.reqs, "eth_getTransactionCount")])
              /\ tx' = [tx EXCEPT !.nonce = count]
           \/ /\ SubThrows("sign", "JSONRPCError", MsgAlreadyKnown)
              /\ UNCHANGED tx
  /\ UNCHANGED <<rpcVars, tx_built, tx_threw>>

\* `this._nonce ?? (await this._rpc.getTransactionCount(address))`, with
\* `count` the account's transaction count at "latest" when the node answers
SignNonceAt(count) ==
  /\ sub.pc = "nonce"
  /\ \/ /\ NonceSet(tx.nonce)
        /\ SubGoes([sub EXCEPT !.pc = "gasPrice", !.nonce = tx.nonce])
     \/ /\ ~NonceSet(tx.nonce)
        /\ \/ SubGoes([sub EXCEPT !.pc = "gasPrice", !.nonce = count,
                               !.reqs = Append(sub.reqs, "eth_getTransactionCount")])
           \/ SubThrows("sign", "JSONRPCError", MsgAlreadyKnown)
  /\ UNCHANGED <<rpcVars, builderVars>>

\* the same step on a node whose count is not followed
SignNonce == \E n \in NodeNonces : SignNonceAt(n)

\* `this._gasPrice || new BN(await this._rpc.getGasPrice())`
SignGasPrice ==
  /\ sub.pc = "gasPrice"
  /\ \/ /\ tx.gasPrice # Undefined
        /\ SubGoes([sub EXCEPT !.pc = "gasLimit", !.gasPrice = tx.gasPrice])
     \/ /\ tx.gasPrice = Undefined
        /\ \/ \E p \in {Int2Num(2000000000)} :
                SubGoes([sub EXCEPT !.pc = "gasLimit", !.gasPrice = BNFromNumber(p),
                                    !.reqs = Append(sub.reqs, "eth_gasPrice")])
           \/ SubThrows("sign", "JSONRPCError", MsgAlreadyKnown)
  /\ UNCHANGED <<rpcVars, builderVars>>

\* `if (this._gasLimit) ... else { gas = await this.estimateGas(); ... }`:
\* estimateGas sends this._to and this.data
SignGasLimit ==
  /\ sub.pc = "gasLimit"
  /\ \/ /\ tx.gasLimit # Undefined
        /\ SubGoes([sub EXCEPT !.pc = "fields", !.gasLimit = tx.gasLimit])
     \/ /\ tx.gasLimit = Undefined
        /\ \/ \E gas \in GasEstimates :
                SubGoes([sub EXCEPT !.pc = "fields",
                                    !.gasLimit = GasLimitFromEstimate(gas),
                                    !.gas = gas,
                                    !.estimateTo = tx.to,
                                    !.estimateData = IF tx.data = NullStr
                                                     THEN <<"0", "x">> ELSE tx.data,
                                    !.reqs = Append(sub.reqs, "eth_estimateGas")])
           \/ SubThrows("sign", "JSONRPCError", MsgAlreadyKnown)
  /\ UNCHANGED <<rpcVars, builderVars>>

\* the signature draws on more than the key and the digest: here, on the
\* number of requests the call has made
RecoveryParam_Varies(digest) == Len(sub.reqs) % 2

\* Account.sign: `keyFromPrivate(key).sign(digest, { canonical: true })` takes
\* its k from the key and the digest and no other entropy, so the signature,
\* and with it sig.recoveryParam, is a function of the two; the parity of the
\* nonce's last digit stands for that function
RecoveryParam(digest) == digest[2][1].w[Len(digest[2][1].w)] % 2

\* the fields are encoded (bufferFromNumber throws the TypeError of
\* ensurePositiveInteger, for the nonce first) and signed; sign() returns the
\* signed transaction, and submit() hashes it and sends eth_sendRawTransaction
SignFields ==
  /\ sub.pc = "fields"
  /\ IF bufferFromNumberThrows(sub.nonce)
     THEN SubThrows("sign", "TypeError",
                    PositiveIntegerMessage(sub.nonce))
     ELSE IF bufferFromNumberThrows(sub.gasLimit)
     THEN SubThrows("sign", "TypeError",
                    PositiveIntegerMessage(sub.gasLimit))
     ELSE LET recoveryParam == RecoveryParam(Keccak256(SigningFields(sub, tx.value))) IN
            IF sub.op = "sign"
            THEN /\ sub' = IdleSub
                 /\ lastSubmit' =
                      [NoSubmitResult EXCEPT !.kind = "signed", !.reqs = sub.reqs,
                         !.gas = sub.gas, !.estimateTo = sub.estimateTo,
                         !.estimateData = sub.estimateData,
                         !.signedTx = SignedTx(sub, tx.value, recoveryParam)]
            ELSE SubGoes([sub EXCEPT !.pc = "send",
                     !.signedTx = SignedTx(sub, tx.value, recoveryParam),
                     !.txHash = Keccak256(SignedTx(sub, tx.value, recoveryParam)),
                     !.reqs = Append(sub.reqs, "eth_sendRawTransaction")])
  /\ UNCHANGED <<rpcVars, builderVars>>

\* `return new TransactionSubmission(this._rpc, txHash)`; the handle goes
\* to the caller, or to submitAndWaitForReceipt awaiting submit()
ReturnHandle(errClass, message) ==
  /\ sub' = IF sub.op = "submitAndWaitForReceipt"
            THEN [sub EXCEPT !.pc = "submitted"] ELSE IdleSub
  /\ lastSubmit' = [kind |-> "handle", stage |-> "send", errClass |-> errClass,
                    message |-> message, signedTx |-> sub.signedTx,
                    txHash |-> sub.txHash, reqs |-> sub.reqs, gas |-> sub.gas,
                    estimateTo |-> sub.estimateTo,
                    estimateData |-> sub.estimateData, waitArgs |-> sub.waitArgs]

\* eth_sendRawTransaction is accepted
SendAccepted ==
  /\ sub.pc = "send"
  /\ ReturnHandle("none", <<>>)
  /\ UNCHANGED <<rpcVars, builderVars>>

\* eth_sendRawTransaction fails: the catch block of submit
SendFails(errClass, message) ==
  /\ sub.pc = "send"
  /\ IF Swallowed(errClass, message)
     THEN ReturnHandle(errClass, message)
     ELSE SubThrows("send", errClass, message)
  /\ UNCHANGED <<rpcVars, builderVars>>

\* the caller reads `submission.txHash`: the getter is entered
ReadTxHash ==
  /\ lastSubmit.kind = "handle"
  /\ read.depth = 0
  /\ read' = [depth |-> 1, result |-> NoHash]
  /\ UNCHANGED <<rpcVars, builderVars, sub, lastSubmit>>

\* the getter's body, `return this.txHash`, enters the getter again; when the
\* call stack is full the read ends with a RangeError
TxHashGetter ==
  /\ read.depth > 0
  /\ read' = IF read.depth < MaxStackDepth
             THEN [read EXCEPT !.depth = read.depth + 1]
             ELSE [depth |-> 0, result |-> <<"RangeError">>]
  /\ UNCHANGED <<rpcVars, builderVars, sub, lastSubmit>>

\* the builder calls made between two sign() / submit() calls
SubmitOptions ==
  [to : {NullAddr, LowerCaseAddress},
   weiValue : {NullStr, <<"1">>},
   ethValue : {NullStr},
   gasLimit : {Undefined, Int2Num(MinGasLimit)},
   gasPriceWei : {Undefined, Int2Num(0)},
   gasPriceGwei : {Undefined},
   data : {NullStr},
   toPromise : BOOLEAN,
   dataPromise : BOOLEAN]

NextTx ==
  \/ \E o \in SubmitOptions : New(o) /\ UNCHANGED <<auxVars, clientVars, submitVars, waitVars>>
  \/ \E n \in {Undefined, Int2Num(0), Int2Num(-1)} :
       sub.pc = "idle" /\ SetNonce(n) /\ UNCHANGED <<auxVars, clientVars, submitVars, waitVars>>
  \/ TransactionSign /\ UNCHANGED <<auxVars, usdcVars, calls, waitVars>>
  \/ Submit /\ UNCHANGED <<auxVars, usdcVars, calls, waitVars>>
  \/ \E ok \in BOOLEAN : SignChainId(ok) /\ UNCHANGED <<auxVars, usdcVars, calls, waitVars, read>>
  \/ SignTo /\ UNCHANGED <<auxVars, usdcVars, calls, waitVars, read>>
  \/ SignData /\ UNCHANGED <<auxVars, usdcVars, calls, waitVars, read>>
  \/ SignNonce /\ UNCHANGED <<auxVars, usdcVars, calls, waitVars, read>>
  \/ SignGasPrice /\ UNCHANGED <<auxVars, usdcVars, calls, waitVars, read>>
  \/ SignGasLimit /\ UNCHANGED <<auxVars, usdcVars, calls, waitVars, read>>
  \/ SignFields /\ UNCHANGED <<auxVars, usdcVars, calls, waitVars, read>>
  \/ SendAccepted /\ UNCHANGED <<auxVars, usdcVars, calls, waitVars, read>>
  \/ \E c \in {"JSONRPCError", "Error"}, m \in Messages :
       SendFails(c, m) /\ UNCHANGED <<auxVars, usdcVars, calls, waitVars, read>>
  \/ ReadTxHash /\ UNCHANGED <<auxVars, usdcVars, calls, waitVars>>
  \/ TxHashGetter /\ UNCHANGED <<auxVars, usdcVars, calls, waitVars>>

\* ------------------------------------------------------ RPC.waitForReceipt
ValidHash == <<"0", "x">> \o Repeat("a", 64)
TxHashes ==
  {ValidHash, Repeat("b", 66), <<"0", "x", "a", "b">>, <<"0", "x">> \o Repeat("z", 64)}
MaxElapsed == MaxTimeout + MaxInterval

\* the arguments and locals of a waitForReceipt() call, with the polls made,
\* the sleeps completed, the requests sent and the outcome of the last poll;
\* they stay on record when the call has ended
IdleWait ==
  [pc |-> "idle", txHash |-> NoHash, ignoreError |-> FALSE, pollingInterval |-> 0,
   timeout |-> 0, elapsed |-> 0, polls |-> 0, sleeps |-> 0, requests |-> 0,
   lastPoll |-> "none"]

\* the two checks at the head of getTransactionReceipt; the hex string of a
\* keccak256 digest, 0x and 64 digits, passes both
ReceiptThrows(txHash) ==
  /\ ~(Len(txHash) = 2 /\ txHash[1] = "keccak256")
  /\ ensureHexStringThrows(txHash) \/ Len(txHash) # 66

\* a timeout check in which a timeout of zero is a timeout like any other
TimedOut_ZeroIsATimeout(w) == w.elapsed >= w.timeout

\* a timeout check that leaves the elapsed time out
TimedOut_ElapsedIgnored(w) == w.timeout > 0

\* `timeout > 0 && elapsed >= timeout`
TimedOut(w) == w.timeout > 0 /\ w.elapsed >= w.timeout

Saturate(n, max) == IF n < max THEN n + 1 ELSE max

\* waitForReceipt(txHash, ignoreError, pollingInterval, timeout) up to the
\* first poll
WaitForReceipt(txHash, ignoreError, pollingInterval, timeout) ==
  /\ wait.pc = "idle"
  /\ IF pollingInterval < 0 \/ timeout < 0
     THEN /\ lastWait' = "Error"
          /\ wait' = [IdleWait EXCEPT !.txHash = txHash,
                                      !.ignoreError = ignoreError,
                                      !.pollingInterval = pollingInterval,
                                      !.timeout = timeout]
     ELSE /\ wait' = [IdleWait EXCEPT !.pc = "poll", !.txHash = txHash,
                                      !.ignoreError = ignoreError,
                                      !.pollingInterval = pollingInterval,
                                      !.timeout = timeout]
          /\ lastWait' = "pending"

\* the same code with a catch block that rethrows whatever ignoreError is
AfterPoll_AlwaysRethrows(w, threw) ==
  IF threw
  THEN /\ wait' = [w EXCEPT !.pc = "idle"]
       /\ lastWait' = "Error"
  ELSE IF TimedOut(w)
  THEN /\ wait' = [w EXCEPT !.pc = "idle"]
       /\ lastWait' = "TimeoutError"
  ELSE /\ wait' = [w EXCEPT !.pc = "sleep"]
       /\ UNCHANGED lastWait

\* the code from one poll's outcome to the next await: the catch block, the
\* timeout check and the call of sleep
AfterPoll(w, threw) ==
  IF threw /\ ~w.ignoreError
  THEN /\ wait' = [w EXCEPT !.pc = "idle"]
       /\ lastWait' = "Error"
  ELSE IF TimedOut(w)
  THEN /\ wait' = [w EXCEPT !.pc = "idle"]
       /\ lastWait' = "TimeoutError"
  ELSE /\ wait' = [w EXCEPT !.pc = "sleep"]
       /\ UNCHANGED lastWait

\* one getTransactionReceipt(txHash): it throws before sending when the hash
\* is malformed, else the node answers with a receipt, null, or an error
Poll(outcome) ==
  /\ wait.pc = "poll"
  /\ LET w == [wait EXCEPT !.polls = Saturate(wait.polls, MaxPolls),
                            !.lastPoll = outcome] IN
     IF ReceiptThrows(wait.txHash)
     THEN outcome = "error" /\ AfterPoll(w, TRUE)
     ELSE LET v == [w EXCEPT !.requests = Saturate(wait.requests, MaxPolls)] IN
          IF outcome = "receipt"
          THEN /\ wait' = [v EXCEPT !.pc = "idle"]
               /\ lastWait' = "receipt"
          ELSE AfterPoll(v, outcome = "error")

\* `await sleep(intervalMs); elapsed += pollingInterval`
Sleep ==
  /\ wait.pc = "sleep"
  /\ wait' = [wait EXCEPT !.pc = "poll",
                !.sleeps = Saturate(wait.sleeps, MaxPolls),
                !.elapsed = IF wait.elapsed + wait.pollingInterval < MaxElapsed
                            THEN wait.elapsed + wait.pollingInterval ELSE MaxElapsed]
  /\ UNCHANGED lastWait

\* no Transaction constructed yet, and no call on one made
InitTransaction ==
  /\ tx = NewTx
  /\ tx_built = FALSE
  /\ tx_threw = FALSE
  /\ sub = IdleSub
  /\ lastSubmit = NoSubmitResult
  /\ read = NoRead
  /\ wait = IdleWait
  /\ lastWait = "none"

WaitPoll ==
  \E o \in {"receipt", "null", "error"} :
    Poll(o) /\ UNCHANGED <<auxVars, clientVars, builderVars, submitVars>>
WaitSleep == Sleep /\ UNCHANGED <<auxVars, clientVars, builderVars, submitVars>>

\* Transaction.submitAndWaitForReceipt(ignoreError, pollingInterval, timeout)
\* called by the user, up to the first await of submit()
SubmitAndWaitForReceipt(ignoreError, pollingInterval, timeout) ==
  /\ tx_built
  /\ sub.pc = "idle"
  /\ wait.pc = "idle"
  /\ sub' = [IdleSub EXCEPT !.op = "submitAndWaitForReceipt", !.pc = "chainId",
                            !.waitArgs = <<ignoreError, pollingInterval, timeout>>]
  /\ lastSubmit' = NoSubmitResult
  /\ read' = NoRead
  /\ wait' = IdleWait
  /\ lastWait' = "none"
  /\ UNCHANGED <<rpcVars, builderVars>>

\* a handle's waitForReceipt that polls with the default arguments
HandleWaitForReceipt_Defaults(txHash, ignoreError, pollingInterval, timeout) ==
  WaitForReceipt(txHash, TRUE, pollingInterval, 0)

\* TransactionSubmission.waitForReceipt: the handle's _txHash and the three
\* arguments go to RPC.waitForReceipt
HandleWaitForReceipt(txHash, ignoreError, pollingInterval, timeout) ==
  WaitForReceipt(txHash, ignoreError, pollingInterval, timeout)

\* `const submission = await this.submit()` yields the handle, and
\* `submission.waitForReceipt(ignoreError, pollingInterval, timeout)` is called
WaitAfterSubmit ==
  /\ sub.pc = "submitted"
  /\ HandleWaitForReceipt(sub.txHash, sub.waitArgs[1], sub.waitArgs[2], sub.waitArgs[3])
  /\ sub' = IdleSub
  /\ UNCHANGED <<rpcVars, builderVars, lastSubmit, read>>

\* one Transaction, submitAndWaitForReceipt calls and their continuations
NextSubmitWait ==
  \/ \E o \in SubmitOptions :
       /\ o.to = LowerCaseAddress /\ o.weiValue = NullStr /\ o.gasPriceWei = Undefined
       /\ New(o) /\ UNCHANGED <<auxVars, clientVars, submitVars, waitVars>>
  \/ \E e \in BOOLEAN, p \in {-1, 1}, t \in {0, MaxTimeout - 1} :
       SubmitAndWaitForReceipt(e, p, t) /\ UNCHANGED <<auxVars, usdcVars, calls>>
  \/ \E ok \in BOOLEAN : SignChainId(ok) /\ UNCHANGED <<auxVars, usdcVars, calls, waitVars, read>>
  \/ SignTo /\ UNCHANGED <<auxVars, usdcVars, calls, waitVars, read>>
  \/ SignData /\ UNCHANGED <<auxVars, usdcVars, calls, waitVars, read>>
  \/ SignNonce /\ UNCHANGED <<auxVars, usdcVars, calls, waitVars, read>>
  \/ SignGasPrice /\ UNCHANGED <<auxVars, usdcVars, calls, waitVars, read>>
  \/ SignGasLimit /\ UNCHANGED <<auxVars, usdcVars, calls, waitVars, read>>
  \/ SignFields /\ UNCHANGED <<auxVars, usdcVars, calls, waitVars, read>>
  \/ SendAccepted /\ UNCHANGED <<auxVars, usdcVars, calls, waitVars, read>>
  \/ \E c \in {"JSONRPCError", "Error"}, m \in Messages :
       SendFails(c, m) /\ UNCHANGED <<auxVars, usdcVars, calls, waitVars, read>>
  \/ WaitAfterSubmit /\ UNCHANGED <<auxVars, usdcVars, calls>>
  \/ WaitPoll
  \/ WaitSleep

NextWait ==
  \/ \E h \in TxHashes, e \in BOOLEAN, p \in -1..MaxInterval, t \in -1..MaxTimeout :
       WaitForReceipt(h, e, p, t) /\ UNCHANGED <<auxVars, clientVars, builderVars, submitVars>>
  \/ WaitPoll
  \/ WaitSleep

\* ------------------------------------------------ wallets and their clients
\* functionSelector: the first four bytes of keccak256(funcSig)
functionSelector(funcSig) == <<"first4", Keccak256(funcSig)>>

\* the returned address is the checksum form whatever the casing given
ensureValidAddress_AsGiven(address) == address

\* ensureValidAddress of an address isValidAddress accepts
ensureValidAddress(address) == checksumAddress(address)

\* `new Wallet(options)`: its account, a new RPC object (the id `rpc`) and an
\* empty _erc20s map
NewWallet(hdKey, recoveryPhrase, accountIndex, rpc) ==
  [hdKey |-> hdKey, recoveryPhrase |-> recoveryPhrase, accountIndex |-> accountIndex,
   account |-> <<hdKey, accountIndex>>, rpc |-> rpc, erc20s |-> {}]

NoCall == [op |-> "none", this |-> 0, arg |-> <<>>, threw |-> FALSE, result |-> <<>>]

\* Wallet.parse(phrase): the objects are numbered in the order of their creation
InitHeap ==
  [wallets |-> <<NewWallet("seed", "phrase", 0, 1)>>,
   rpcs |-> <<[url |-> BlankURL, chainId |-> NoChainId]>>,
   erc20s |-> <<>>,
   selectors |-> {},
   last |-> NoCall]

\* the new wallet is handed the RPC object of the wallet it comes from
SelectAccount_SharedRPC(w, index) ==
  /\ Len(heap.wallets) < MaxWallets
  /\ heap' = [heap EXCEPT
       !.wallets = Append(@, NewWallet(heap.wallets[w].hdKey, heap.wallets[w].recoveryPhrase,
                                       index, heap.wallets[w].rpc)),
       !.last = [NoCall EXCEPT !.op = "selectAccount", !.this = w, !.arg = <<index>>,
                               !.result = <<Len(heap.wallets) + 1>>]]

\* Wallet.selectAccount(index)
SelectAccount(w, index) ==
  /\ Len(heap.wallets) < MaxWallets
  /\ heap' = [heap EXCEPT
       !.rpcs = Append(@, [url |-> heap.rpcs[heap.wallets[w].rpc].url,
                           chainId |-> NoChainId]),
       !.wallets = Append(@, NewWallet(heap.wallets[w].hdKey, heap.wallets[w].recoveryPhrase,
                                       index, Len(heap.rpcs) + 1)),
       !.last = [NoCall EXCEPT !.op = "selectAccount", !.this = w, !.arg = <<index>>,
                               !.result = <<Len(heap.wallets) + 1>>]]

\* Wallet.connect(rpcURL): setURL on the wallet's own RPC object
WalletConnect(w, rpcURL) ==
  heap' = [heap EXCEPT
    !.rpcs[heap.wallets[w].rpc] = [url |-> rpcURL, chainId |-> NoChainId],
    !.last = [NoCall EXCEPT !.op = "connect", !.this = w, !.arg = <<rpcURL>>,
                            !.result = <<w>>]]

\* wallet.rpc.getChainId(), awaited before the next call is made
WalletGetChainId(w) ==
  LET r == heap.wallets[w].rpc
      chainId == IF heap.rpcs[r].chainId # NoChainId THEN heap.rpcs[r].chainId
                 ELSE NodeChainId(heap.rpcs[r].url)
  IN  heap' = [heap EXCEPT
        !.rpcs[r].chainId = chainId,
        !.last = [NoCall EXCEPT !.op = "getChainId", !.this = w,
                                !.threw = (chainId = NoChainId),
                                !.result = <<chainId>>]]

\* memoizeSelector is not looked at
EthCall_AlwaysMemoizes(r, funcSig, memoizeSelector) ==
  heap' = [heap EXCEPT
    !.selectors = @ \cup {<<funcSig, functionSelector(funcSig)>>},
    !.last = [NoCall EXCEPT !.op = "ethCall", !.this = r,
                            !.arg = <<funcSig, memoizeSelector>>,
                            !.result = <<functionSelector(funcSig)>>]]

\* RPC.ethCall up to its eth_call request: `result` is the selector that
\* starts the data sent
EthCall(r, funcSig, memoizeSelector) ==
  LET cached == {e \in heap.selectors : e[1] = funcSig}
      sel == IF cached # {} THEN (CHOOSE e \in cached : TRUE)[2]
             ELSE functionSelector(funcSig)
  IN  heap' = [heap EXCEPT
        !.selectors = IF cached = {} /\ memoizeSelector
                        THEN @ \cup {<<funcSig, sel>>} ELSE @,
        !.last = [NoCall EXCEPT !.op = "ethCall", !.this = r,
                                !.arg = <<funcSig, memoizeSelector>>,
                                !.result = <<sel>>]]

\* Wallet.erc20(contractAddress, decimalPlaces)
Erc20(w, contractAddress, decimalPlaces) ==
  IF ~isValidAddress(contractAddress)
    THEN heap' = [heap EXCEPT
           !.last = [NoCall EXCEPT !.op = "erc20", !.this = w,
                                   !.arg = <<contractAddress, decimalPlaces>>,
                                   !.threw = TRUE]]
    ELSE LET addr == ensureValidAddress(contractAddress)
             found == {e \in heap.wallets[w].erc20s : e[1] = addr}
             e == IF found # {} THEN (CHOOSE x \in found : TRUE)[2]
                  ELSE Len(heap.erc20s) + 1
         IN  heap' = [heap EXCEPT
               !.erc20s = IF found # {} THEN @
                          ELSE Append(@, [account |-> heap.wallets[w].account,
                                          rpc |-> heap.wallets[w].rpc,
                                          contractAddress |-> addr,
                                          decimalPlaces |-> decimalPlaces]),
               !.wallets[w].erc20s = IF found # {} THEN @ ELSE @ \cup {<<addr, e>>},
               !.last = [NoCall EXCEPT !.op = "erc20", !.this = w,
                                       !.arg = <<contractAddress, decimalPlaces>>,
                                       !.result = <<e>>]]

\* ------------------------------- USDC.signPermit / signTransferAuthorization
\* the part of the two calls that follows getDomainSeparator and
\* getDecimalPlaces (6, set by the constructor), with the contract address
\* resolved
RECURSIVE BufferFromHex(_)
\* Buffer.from(str, "hex"): the bytes of the leading pairs of hexadecimal
\* digits; decoding stops at the first pair that is not one. A Buffer is the
\* sequence of its hexadecimal digits, two per byte, as toString("hex") gives
BufferFromHex(str) ==
  IF Len(str) >= 2 /\ IsHexChar(str[1]) /\ IsHexChar(str[2])
    THEN <<ToLowerCase(str[1]), ToLowerCase(str[2])>>
           \o BufferFromHex(SubSeq(str, 3, Len(str)))
    ELSE <<>>

\* a bytes32 parameter of the digest: the buffer, zero bytes to its right
Bytes32(buf) == [i \in 1..64 |-> IF i <= Len(buf) THEN buf[i] ELSE "0"]

\* 0 counts as no nonce
PermitNonceGiven_Truthy(nonce) == nonce.kind = "num" /\ nonce.w # <<0>>

\* `typeof options.nonce === "number"`
PermitNonceGiven(nonce) == nonce.kind # "undefined"

NoPermitResult ==
  [fn |-> "none", kind |-> "none", options |-> <<>>, reqs |-> <<>>,
   nonce |-> Undefined, chain |-> 0, random |-> FALSE, authNonce |-> <<>>,
   hashed |-> <<>>]

\* no permit confirmed on chain, no call made
InitPermit ==
  [nonces |-> 0, pc |-> "idle", options |-> <<>>,
   last |-> NoPermitResult, prev |-> NoPermitResult]

\* a call ends: its outcome becomes the last one
PermitEnds(result) ==
  permit' = [permit EXCEPT !.pc = "idle", !.options = <<>>,
                           !.prev = permit.last, !.last = result]

\* USDC.signPermit(options), up to the await of getNextPermitNonce
SignPermit(options) ==
  /\ permit.pc = "idle"
  /\ LET r == [NoPermitResult EXCEPT !.fn = "signPermit", !.options = options,
                                     !.chain = permit.nonces]
     IN  IF \/ ~isValidAddress(options.spender)
            \/ ~IsPositiveDecimalString(options.allowance)
           THEN PermitEnds([r EXCEPT !.kind = "threw"])
         ELSE IF PermitNonceGiven(options.nonce)
           THEN IF IsInteger(options.nonce) /\ ~options.nonce.neg
                  THEN PermitEnds([r EXCEPT !.kind = "ok", !.nonce = options.nonce])
                  ELSE PermitEnds([r EXCEPT !.kind = "threw"])
         ELSE permit' = [permit EXCEPT !.pc = "nonces", !.options = options]

\* the node answers the eth_call of nonces(address) with the value on chain,
\* and signPermit signs with result.toNumber()
NoncesResult ==
  /\ permit.pc = "nonces"
  /\ PermitEnds([NoPermitResult EXCEPT
       !.fn = "signPermit", !.options = permit.options, !.kind = "ok",
       !.reqs = <<"nonces(address)">>, !.nonce = Int2Num(permit.nonces),
       !.chain = permit.nonces])

\* the eth_call fails: signPermit throws what callMethod threw
NoncesFails ==
  /\ permit.pc = "nonces"
  /\ PermitEnds([NoPermitResult EXCEPT
       !.fn = "signPermit", !.options = permit.options, !.kind = "threw",
       !.reqs = <<"nonces(address)">>, !.chain = permit.nonces])

\* a permit of the owner is confirmed: nonces(owner) grows on chain
PermitConfirmed ==
  /\ permit.nonces < MaxPermitNonce
  /\ permit' = [permit EXCEPT !.nonces = @ + 1]

\* USDC.signTransferAuthorization(options); randomBytes(32) is one of two values
SignTransferAuthorization(options) ==
  /\ permit.pc = "idle"
  /\ LET r == [NoPermitResult EXCEPT !.fn = "signTransferAuthorization",
                                     !.options = options, !.chain = permit.nonces]
     IN  IF \/ ~isValidAddress(options.to)
            \/ ~IsPositiveDecimalString(options.amount)
           THEN PermitEnds([r EXCEPT !.kind = "threw"])
         ELSE IF Truthy(options.nonce)
           THEN IF ensureHexStringThrows(options.nonce)
                  THEN PermitEnds([r EXCEPT !.kind = "threw"])
                  ELSE LET nonce == BufferFromHex(ensureHexString(options.nonce, TRUE, FALSE))
                       IN  PermitEnds([r EXCEPT !.kind = "ok",
                                                !.authNonce = <<"0", "x">> \o nonce,
                                                !.hashed = Bytes32(nonce)])
         ELSE \E nonce \in {Repeat("0", 64), Repeat("9", 64)} :
                PermitEnds([r EXCEPT !.kind = "ok", !.random = TRUE,
                                     !.authNonce = <<"0", "x">> \o nonce,
                                     !.hashed = Bytes32(nonce)])

\* ------------------------------------------------- RPC.callMethod outcome
StatusText(status) ==
  CASE status = 200 -> "OK"
    [] status = 201 -> "Created"
    [] status = 404 -> "Not Found"
    [] OTHER -> "Internal Server Error"

\* JSONRPCResponse.error: absent, or an object { message, code, data }
NoError == [present |-> FALSE, message |-> "", code |-> 0, data |-> "null"]

\* an HTTP response: its status (Response.ok is 200..299), whether the body
\* parses as JSON, and the body's error and result members ("undefined" is
\* an absent result)
Responses ==
  { r \in [status : {200, 201, 404, 500}, parses : BOOLEAN,
           error : { NoError,
                     [NoError EXCEPT !.present = TRUE],
                     [present |-> TRUE, message |-> "Method not found",
                      code |-> -32601, data |-> "d"] },
           result : {"undefined", "null", "0x0", "hi"}] :
      r.parses \/ (r.error = NoError /\ r.result = "undefined") }

JSONRPCError(message, code, data, httpStatus) ==
  [kind |-> "JSONRPCError", message |-> message, code |-> code, data |-> data,
   httpStatus |-> httpStatus, value |-> "undefined"]

\* the ok flag is tested before the error member
callMethod_StatusFirst(response) ==
  IF ~(response.status \in 200..299)
    THEN JSONRPCError(StatusText(response.status), 0, "null", response.status)
    ELSE IF response.parses /\ response.error.present
      THEN JSONRPCError(response.error.message, response.error.code,
                        response.error.data, response.status)
      ELSE IF ~response.parses \/ response.result = "undefined"
        THEN JSONRPCError("Result missing", 0, "null", response.status)
        ELSE [kind |-> "return", message |-> "", code |-> 0, data |-> "null",
              httpStatus |-> response.status, value |-> response.result]

\* RPC.callMethod once fetch has resolved with a response
callMethod(response) ==
  LET err == IF response.parses THEN response.error ELSE NoError
      result == IF response.parses THEN response.result ELSE "undefined"
  IN  IF err.present
        THEN JSONRPCError(err.message, err.code, err.data, response.status)
        ELSE IF ~(response.status \in 200..299)
          THEN JSONRPCError(StatusText(response.status), 0, "null", response.status)
          ELSE IF result = "undefined"
            THEN JSONRPCError("Result missing", 0, "null", response.status)
            ELSE [kind |-> "return", message |-> "", code |-> 0, data |-> "null",
                  httpStatus |-> response.status, value |-> result]

\* no utility function called yet; one wallet parsed from a recovery phrase
InitUtil ==
  /\ util = [fn |-> "none", arg |-> <<>>, result |-> <<>>]
  /\ heap = InitHeap
  /\ permit = InitPermit
  /\ chain = [txCount |-> Int2Num(0), fetched |-> <<>>]

CallMethod ==
  \E response \in Responses :
    util' = [fn |-> "callMethod", arg |-> response, result |-> callMethod(response)]

\* ------------------------------------------------- decimal strings and BNs
RECURSIVE StripTrailingZeros(_)
\* str.replace(/0+$/, "")
StripTrailingZeros(str) ==
  IF Len(str) > 0 /\ str[Len(str)] = "0"
    THEN StripTrailingZeros(SubSeq(str, 1, Len(str) - 1))
    ELSE str

\* str.replace(/\.0+$/, ""): a "." followed by zeros only, up to the end
StripDotZeros(str) ==
  LET dots == {d \in 1..(Len(str) - 1) :
                 str[d] = "." /\ \A i \in (d + 1)..Len(str) : str[i] = "0"}
  IN  IF dots = {} THEN str ELSE SubSeq(str, 1, (CHOOSE d \in dots : TRUE) - 1)

\* decimalStringFromBN: the string returned, or the Error thrown
DecimalStringFromBN(bn, decimalPlaces) ==
  LET digits == [i \in 1..Len(bn.w) |-> DigitChars[bn.w[i] + 1]]
      str == IF Len(digits) >= decimalPlaces + 1 THEN digits
             ELSE Repeat("0", decimalPlaces + 1 - Len(digits)) \o digits
      pointed == SubSeq(str, 1, Len(str) - decimalPlaces) \o <<".">>
                   \o SubSeq(str, Len(str) - decimalPlaces + 1, Len(str))
      stripped == StripDotZeros(pointed)
  IN  IF bn.neg THEN [threw |-> TRUE, str |-> <<>>]
      ELSE IF bn.w = <<0>> THEN [threw |-> FALSE, str |-> <<"0">>]
      ELSE IF decimalPlaces = 0 THEN [threw |-> FALSE, str |-> str]
      ELSE [threw |-> FALSE,
            str |-> IF \E i \in 1..Len(stripped) : stripped[i] = "."
                      THEN StripTrailingZeros(stripped) ELSE stripped]

\* bnFromDecimalString with its ensurePositiveDecimalString check: the BN
\* returned, or the TypeError thrown
bnFromDecimalString(decimalNumber, decimalPlaces) ==
  IF IsPositiveDecimalString(decimalNumber)
    THEN [threw |-> FALSE, bn |-> BNFromDecimalString(decimalNumber, decimalPlaces)]
    ELSE [threw |-> TRUE, bn |-> NaN]

BnFromDecimalStringCall ==
  \E decimalNumber \in UNION { [1..n -> {"0", "1", "5", ".", "-", "e"}] :
                                n \in 0..MaxStringLen },
     decimalPlaces \in 0..MaxDecimalPlaces :
    util' = [fn |-> "bnFromDecimalString",
             arg |-> [decimalNumber |-> decimalNumber, decimalPlaces |-> decimalPlaces],
             result |-> bnFromDecimalString(decimalNumber, decimalPlaces)]

\* bnFromDecimalString(decimalStringFromBN(bn, p), p) of a BN that is not negative
DecimalRoundTrip ==
  \E n \in 0..MaxBN, decimalPlaces \in 0..MaxDecimalPlaces :
    LET str == DecimalStringFromBN(Int2Num(n), decimalPlaces)
    IN  util' = [fn |-> "roundTrip",
                 arg |-> [bn |-> Int2Num(n), decimalPlaces |-> decimalPlaces],
                 result |-> [str |-> str,
                             back |-> IF str.threw THEN [threw |-> TRUE, bn |-> NaN]
                                      ELSE bnFromDecimalString(str.str, decimalPlaces)]]

\* ---------------------------------------------------------- specifications
\* a wallet not yet connected, its USDC client, and no transaction
Init == InitRPC(BlankURL) /\ InitUSDC /\ InitTransaction /\ InitUtil

\* the client's calls in every interleaving
Next ==
  \/ Configure /\ UNCHANGED txVars
  \/ \E i \in Slots : GetChainId(i) /\ UNCHANGED txVars
  \/ \E i \in Slots : GetContractAddress(i) /\ UNCHANGED txVars
  \/ \E i \in Slots : Sign(i) /\ UNCHANGED txVars
  \/ \E i \in Slots : Resume(i) /\ UNCHANGED txVars

Spec == Init /\ [][Next]_vars

\* calls made one after the other: a call starts only when none is suspended
NextSeq ==
  \/ Configure /\ UNCHANGED txVars
  \/ \E i \in Slots : AllIdle /\ GetChainId(i) /\ UNCHANGED txVars
  \/ \E i \in Slots : AllIdle /\ GetContractAddress(i) /\ UNCHANGED txVars
  \/ \E i \in Slots : AllIdle /\ Sign(i) /\ UNCHANGED txVars
  \/ \E i \in Slots : Resume(i) /\ UNCHANGED txVars

SeqSpec == Init /\ [][NextSeq]_vars

\* constructor and setter calls on one Transaction
BuilderSpec == Init /\ [][NextBuilder]_vars

\* a Transaction of a connected wallet, built, then signed and submitted
InitTx ==
  \E u \in {"u1", "u2"} : InitRPC(u) /\ InitUSDC /\ InitTransaction /\ InitUtil

TxSpec == InitTx /\ [][NextTx]_vars

\* waitForReceipt calls; a ready continuation runs and a timer fires
WaitSpec ==
  /\ InitTx
  /\ [][NextWait]_vars
  /\ WF_vars(WaitPoll)
  /\ WF_vars(WaitSleep)

\* submitAndWaitForReceipt calls on a Transaction of a connected wallet
SubmitWaitSpec == InitTx /\ [][NextSubmitWait]_vars

\* one call of a utility function
NextUtil ==
  \/ util.fn = "none" /\ CallMethod /\ UNCHANGED <<baseVars, heap, permit>>
  \/ util.fn = "none" /\ BnFromDecimalStringCall /\ UNCHANGED <<baseVars, heap, permit>>
  \/ util.fn = "none" /\ DecimalRoundTrip /\ UNCHANGED <<baseVars, heap, permit>>

UtilSpec == Init /\ [][NextUtil]_vars

\* wallets made by selectAccount, connected, and calling their nodes
NextWallet ==
  \/ \E w \in 1..Len(heap.wallets), index \in {0, 1} :
       SelectAccount(w, index) /\ UNCHANGED <<baseVars, util, permit>>
  \/ \E w \in 1..Len(heap.wallets), rpcURL \in {"u1", "u2"} :
       WalletConnect(w, rpcURL) /\ UNCHANGED <<baseVars, util, permit>>
  \/ \E w \in 1..Len(heap.wallets) :
       WalletGetChainId(w) /\ UNCHANGED <<baseVars, util, permit>>
  \/ \E r \in 1..Len(heap.rpcs), memoizeSelector \in BOOLEAN,
        funcSig \in {"nonces(address)", "DOMAIN_SEPARATOR()"} :
       EthCall(r, funcSig, memoizeSelector) /\ UNCHANGED <<baseVars, util, permit>>

WalletSpec == Init /\ [][NextWallet]_vars

\* erc20() calls on one wallet
NextErc20 ==
  \E contractAddress \in {LowerCaseAddress, USDCAddress(1), DigitAddress, BadAddress},
     decimalPlaces \in {Undefined, Int2Num(6), Int2Num(18)} :
    Erc20(1, contractAddress, decimalPlaces) /\ UNCHANGED <<baseVars, util, permit>>

Erc20Spec == Init /\ [][NextErc20]_vars

\* signPermit and signTransferAuthorization calls made one after the other,
\* while permits are confirmed on chain
NextPermit ==
  \/ \E spender \in {DigitAddress, BadAddress},
        allowance \in {<<"1", ".", "5">>, <<"-", "1">>},
        nonce \in {Undefined, Int2Num(0), Int2Num(7), Int2Num(-1),
                   Num(FALSE, <<1>>, <<5>>)} :
       /\ SignPermit([spender |-> spender, allowance |-> allowance, nonce |-> nonce])
       /\ UNCHANGED <<baseVars, util, heap>>
  \/ NoncesResult /\ UNCHANGED <<baseVars, util, heap>>
  \/ NoncesFails /\ UNCHANGED <<baseVars, util, heap>>
  \/ PermitConfirmed /\ UNCHANGED <<baseVars, util, heap>>
  \/ \E to \in {DigitAddress, BadAddress}, amount \in {<<"1", ".", "5">>, <<"-", "1">>},
        nonce \in {NullStr, <<>>, <<"0", "x">> \o Repeat("c", 64), Repeat("C", 64),
                   <<"0", "x", "1", "2">>, <<"0", "x", "z", "z">>} :
       /\ SignTransferAuthorization([to |-> to, amount |-> amount, nonce |-> nonce])
       /\ UNCHANGED <<baseVars, util, heap>>

PermitSpec == Init /\ [][NextPermit]_vars

\* ------------------------------------------------------------------ claims

\* C1: submit() returns a handle exactly when eth_sendRawTransaction is
\* accepted or fails with a JSONRPCError whose message contains "known" or
\* "imported" in any letter case; every other error of signing or sending
\* reaches the caller with no handle; the handle's txHash is the hash of the
\* signed transaction alone, so equal signed transactions give equal hashes.
C1_SubmitKnownOrImported ==
  /\ lastSubmit.kind = "handle" =>
       /\ lastSubmit.txHash = <<"keccak256", lastSubmit.signedTx>>
       /\ lastSubmit.signedTx # <<>>
       /\ \/ lastSubmit.errClass = "none"
          \/ /\ lastSubmit.errClass = "JSONRPCError"
             /\ lastSubmit.message \in {MsgAlreadyKnown, MsgKNOWN, MsgImported}
  /\ (/\ lastSubmit.stage = "send"
      /\ lastSubmit.errClass = "JSONRPCError"
      /\ lastSubmit.message \in {MsgAlreadyKnown, MsgKNOWN, MsgImported})
       => lastSubmit.kind = "handle"
  /\ (/\ lastSubmit.stage = "send"
      /\ lastSubmit.errClass # "none"
      /\ ~(/\ lastSubmit.errClass = "JSONRPCError"
           /\ lastSubmit.message \in {MsgAlreadyKnown, MsgKNOWN, MsgImported}))
       => lastSubmit.kind = "threw"
  /\ lastSubmit.stage = "sign" => lastSubmit.kind = "threw"

\* a handle returned although the node rejected the transaction as "KNOWN"
C1_Witness ==
  /\ lastSubmit.kind = "handle"
  /\ lastSubmit.errClass = "JSONRPCError"
  /\ lastSubmit.message = MsgKNOWN

\* C2: a waitForReceipt call for a well-formed hash with timeout > 0 that is
\* polling eventually ends (with a receipt, an error or TimeoutError).
C2_EventuallyTimesOut ==
  (wait.pc = "poll" /\ wait.timeout > 0 /\ wait.txHash = ValidHash)
    ~> (wait.pc = "idle")

\* C3: without an override, no getContractAddress() call returns an address
\* when the chain id that call obtained is outside {1, 3, 4, 5, 137, 80001}.
C3_UnsupportedChainFails ==
  (~usdc_contractAddressOverridden /\ lastAddress.kind = "ok")
    => lastAddress.chainId \in SupportedChainIds

\* C4: without an override, every address getContractAddress() returns is the
\* canonical USDC address of the chain id obtained during that same call.
C4_AddressOfSameChain ==
  (~usdc_contractAddressOverridden /\ lastAddress.kind = "ok")
    => lastAddress.addr = USDCAddress(lastAddress.chainId)

\* C5: a getContractAddress() call made after overrideContractAddress(a)
\* returns a.
C5_OverrideReturned ==
  lastAddress.viaOverride => lastAddress.addr = lastAddress.expected

\* C6: with calls made one after the other, at most one successful eth_chainId
\* request is issued between two URL replacements; setURL / connect leave the
\* cached chain id unset and the wallet's RPC object the same; a getChainId
\* call sends eth_chainId exactly when the cache is unset.
C6_ChainIdCachedPerURL ==
  /\ [](epochChainIdOk <= 1)
  /\ [][\A u \in URLs : Connect(u) =>
          (rpc_chainId' = NoChainId /\ wallet_rpc' = wallet_rpc)]_vars
  /\ [][\A i \in Slots : GetChainId(i) =>
          IF rpc_chainId = NoChainId
          THEN calls'[i].pc = "eth_chainId" /\ calls'[i].reqUrl = rpc_url
          ELSE calls' = calls]_vars

\* a chain id cached by the one successful request made after a URL change
C6_Witness ==
  epoch >= 1 /\ epochChainIdOk = 1 /\ rpc_chainId = NodeChainId(rpc_url) /\ AllIdle

\* C7: when no eth_chainId request sent before the last URL replacement is
\* still pending, the cached chain id is unset or the one of the node at the
\* current URL.
C7_NoStaleChainId ==
  (\A i \in Slots : calls[i].pc = "eth_chainId" => calls[i].reqEpoch = epoch)
    => rpc_chainId \in {NoChainId, NodeChainId(rpc_url)}

\* C8: a signPermit / signTransferAuthorization that succeeds signs with a
\* domain separator requested after the last URL replacement that preceded
\* the call.
C8_SeparatorRefetchedAfterURLChange ==
  lastSign.kind = "ok" => lastSign.sepEpoch >= lastSign.startEpoch

\* C9: with calls made one after the other, once the client holds a domain
\* separator it never changes and no further DOMAIN_SEPARATOR() eth_call is sent.
C9_SeparatorCachedForLife ==
  [][usdc_domainSeparator # NoSeparator =>
       /\ usdc_domainSeparator' = usdc_domainSeparator
       /\ \A i \in Slots : calls'[i].pc \in {"gotAddress", "eth_call"}
                             => calls[i].pc \in {"gotAddress", "eth_call"}
       /\ \A i \in Slots : (calls[i].op = "idle" /\ calls'[i].op = "sign")
                             => /\ calls'[i].pc = "signing"
                                /\ calls'[i].sep = usdc_domainSeparator]_vars

\* a signature made after a URL change with the separator cached before it
C9_Witness ==
  lastSign.kind = "ok" /\ lastSign.sepEpoch < lastSign.startEpoch

\* C10: whatever constructor and setter calls were made, and whether they
\* returned or threw, the stored value is unset or an integer in [0, 10^24),
\* the stored gas limit is unset or an integer in [21000, 20000000], and the
\* stored gas price is unset or an integer in [0, 10^12].
C10_StoredFieldsInRange ==
  /\ \/ tx.value = Undefined
     \/ /\ tx.value.kind = "num" /\ ~tx.value.neg /\ tx.value.f = <<>>
        /\ Len(tx.value.w) <= 24
  /\ \/ tx.gasLimit = Undefined
     \/ /\ tx.gasLimit.kind = "num" /\ ~tx.gasLimit.neg /\ tx.gasLimit.f = <<>>
        /\ Len(tx.gasLimit.w) <= 8
        /\ IntOfDigits(tx.gasLimit.w) \in 21000..20000000
  /\ \/ tx.gasPrice = Undefined
     \/ /\ tx.gasPrice.kind = "num" /\ ~tx.gasPrice.neg /\ tx.gasPrice.f = <<>>
        /\ Len(tx.gasPrice.w) <= 12 \/ tx.gasPrice.w = <<1, 0, 0, 0, 0, 0, 0, 0, 0, 0, 0, 0, 0>>

\* the largest accepted value, gas limit and gas price stored, and a setter
\* call just rejected
C10_Witness ==
  /\ tx_built /\ tx_threw
  /\ tx.value.w = [i \in 1..24 |-> 9]
  /\ tx.gasLimit.w = <<2, 0, 0, 0, 0, 0, 0, 0>>
  /\ tx.gasPrice.w = <<1, 0, 0, 0, 0, 0, 0, 0, 0, 0, 0, 0, 0>>

\* C11: a constructor call whose options hold both a weiValue and an ethValue
\* string, or both a gasPriceWei and a gasPriceGwei number, throws and leaves
\* no Transaction, whatever the two values are.
C11_BothSuppliedThrows ==
  [][\A o \in ConstructorOptions :
       (/\ New(o)
        /\ \/ IsString(o.weiValue) /\ IsString(o.ethValue)
           \/ IsNumber(o.gasPriceWei) /\ IsNumber(o.gasPriceGwei))
       => (~tx_built' /\ tx_threw')]_vars

\* C12: setNonce stores a non-negative integer, clears the nonce when given
\* null, and rejects every other number with an error, keeping the stored
\* nonce.
C12_NonceNonNegativeInteger ==
  [][\A n \in {Undefined, NaN, Int2Num(0), Int2Num(5), Int2Num(-1),
               Num(FALSE, <<0>>, <<5>>)} :
       SetNonce(n) =>
         IF n = Undefined THEN tx'.nonce = Undefined /\ ~tx_threw'
         ELSE IF IsInteger(n) /\ ~NumLess(n, Int2Num(0))
              THEN tx'.nonce = n /\ ~tx_threw'
              ELSE tx'.nonce = tx.nonce /\ tx_threw']_vars

\* C13: when no gas limit is set and the node's estimate is g, sign() yields
\* a signed transaction whose gas limit is 21000 if g = 21000 and 1.5 * g
\* otherwise (a call stopped by a negative nonce aside).
C13_EstimateBecomesGasLimit ==
  (/\ lastSubmit.gas # 0
   /\ ~(lastSubmit.stage = "sign" /\ lastSubmit.message = PositiveIntegerMessage(Int2Num(-1))))
    => /\ lastSubmit.signedTx # NoSignedTx
       /\ LET gasLimit == lastSubmit.signedTx[3] IN
            IF lastSubmit.gas = 21000 THEN gasLimit = Int2Num(21000)
            ELSE /\ gasLimit.kind = "num" /\ ~gasLimit.neg
                 /\ gasLimit.f \in {<<>>, <<5>>}
                 /\ 2 * IntOfDigits(gasLimit.w) + (IF gasLimit.f = <<5>> THEN 1 ELSE 0)
                      = 3 * lastSubmit.gas

\* C14: the eth_estimateGas request sent by sign() names the recipient and
\* the data that the signed transaction carries, deferred values included.
C14_EstimateUsesResolved ==
  (lastSubmit.gas # 0 /\ lastSubmit.signedTx # NoSignedTx)
    => /\ lastSubmit.estimateTo = lastSubmit.signedTx[4]
       /\ DataBytes(lastSubmit.estimateData) = lastSubmit.signedTx[6]

\* C15: a sign() that produces a signed transaction has sent
\* eth_getTransactionCount, eth_gasPrice and eth_estimateGas exactly for the
\* fields that were not set, and a set nonce, gas price or gas limit (0
\* included) is the one the signed transaction carries.
C15_OnlyMissingFetched ==
  [][(sub.pc = "fields" /\ (sub'.pc = "send" \/ lastSubmit'.kind = "signed"))
       => LET st == IF sub'.pc = "send" THEN sub'.signedTx ELSE lastSubmit'.signedTx IN
            /\ (\E k \in 1..Len(sub.reqs) : sub.reqs[k] = "eth_getTransactionCount")
                 <=> tx.nonce = Undefined
            /\ (\E k \in 1..Len(sub.reqs) : sub.reqs[k] = "eth_gasPrice")
                 <=> tx.gasPrice = Undefined
            /\ (\E k \in 1..Len(sub.reqs) : sub.reqs[k] = "eth_estimateGas")
                 <=> tx.gasLimit = Undefined
            /\ tx.nonce # Undefined => st[1] = tx.nonce
            /\ tx.gasPrice # Undefined => st[2] = tx.gasPrice
            /\ tx.gasLimit # Undefined => st[3] = tx.gasLimit]_vars

\* a transaction signed with nonce 0 and gas price 0 set by the caller, and
\* neither fetched from the node
C15_Witness ==
  /\ lastSubmit.kind = "signed"
  /\ tx.nonce = Int2Num(0) /\ lastSubmit.signedTx[1] = Int2Num(0)
  /\ tx.gasPrice = BNFromNumber(Int2Num(0)) /\ lastSubmit.signedTx[2] = tx.gasPrice
  /\ \A k \in 1..Len(lastSubmit.reqs) :
       lastSubmit.reqs[k] \notin {"eth_getTransactionCount", "eth_gasPrice"}

\* C16: in every signed transaction r and s sign the hash of the 9 fields
\* nonce, gas price, gas limit, to, value, data, chain id, empty, empty, and
\* v is the recovery id (0 or 1) plus twice the chain id plus 35.
C16_EIP155 ==
  lastSubmit.signedTx # NoSignedTx =>
    LET st == lastSubmit.signedTx IN
      /\ st[8][1] = "r" /\ st[9][1] = "s"
      /\ st[8][2][1] = "keccak256" /\ st[9][2] = st[8][2]
      /\ Len(st[8][2][2]) = 9
      /\ \A k \in 1..6 : st[8][2][2][k] = st[k]
      /\ st[8][2][2][7] = NodeChainId(rpc_url)
      /\ st[8][2][2][8] = <<>> /\ st[8][2][2][9] = <<>>
      /\ st[7] - (2 * NodeChainId(rpc_url) + 35) \in {0, 1}

\* a transaction signed for chain 137 with recovery id 1
C16_Witness ==
  lastSubmit.kind = "signed" /\ lastSubmit.signedTx[7] = 2 * 137 + 36

\* C18: a poll error of a waitForReceipt call with ignoreError = false ends
\* the call with that error at once, so no further poll is made; with
\* ignoreError = true a poll error never ends the call with an error: the
\* call goes on to sleep and poll again, as after an empty answer, unless the
\* timeout has been reached.
C18_IgnoreErrorSwallows ==
  /\ (wait.lastPoll = "error" /\ ~wait.ignoreError)
       => (wait.pc = "idle" /\ lastWait = "Error")
  /\ (wait.lastPoll = "error" /\ wait.ignoreError)
       => \/ wait.pc \in {"sleep", "poll"} /\ lastWait = "pending"
          \/ /\ wait.pc = "idle" /\ lastWait = "TimeoutError"
             /\ wait.timeout > 0 /\ wait.elapsed >= wait.timeout
  /\ (lastWait = "Error" /\ wait.polls > 0)
       => (wait.lastPoll = "error" /\ ~wait.ignoreError)

\* a call that has swallowed a poll error, slept, and is about to poll again
C18_Witness ==
  /\ wait.ignoreError /\ wait.lastPoll = "error"
  /\ wait.pc = "poll" /\ wait.polls = 2 /\ wait.requests = 2

\* C19: a call ends with TimeoutError only when timeout > 0, the completed
\* sleeps times pollingInterval have reached timeout, and at least two polls
\* were made; and a call with timeout = 2 and pollingInterval = 1 ends, with
\* TimeoutError (after exactly three polls) when its last poll was answered
\* with null.
C19_TimeoutAfterElapsed ==
  /\ [](lastWait = "TimeoutError" =>
          /\ wait.timeout > 0
          /\ wait.sleeps * wait.pollingInterval >= wait.timeout
          /\ wait.polls >= 2)
  /\ []((/\ wait.pc = "idle" /\ wait.timeout = 2 /\ wait.pollingInterval = 1
         /\ wait.lastPoll = "null")
          => (lastWait = "TimeoutError" /\ wait.polls = 3))
  /\ (wait.pc = "poll" /\ wait.timeout = 2 /\ wait.pollingInterval = 1)
       ~> (wait.pc = "idle")

\* timeout = 2, pollingInterval = 1 and three null answers: TimeoutError
C19_Witness ==
  /\ lastWait = "TimeoutError"
  /\ wait.timeout = 2 /\ wait.pollingInterval = 1
  /\ wait.polls = 3 /\ wait.requests = 3 /\ wait.sleeps = 2
  /\ wait.lastPoll = "null"

\* C17: a read of the handle's txHash that has ended has returned the hash
\* the handle stores, the one getReceipt and waitForReceipt use.
C17_GetterReturnsStoredHash ==
  read.result # NoHash => read.result = lastSubmit.txHash

\* C20: during a submitAndWaitForReceipt call no poll is made while submit()
\* has not returned its handle; when submit() fails no poll is made at all;
\* and the polling that follows uses the txHash of the submitted transaction
\* and the ignoreError, pollingInterval and timeout the caller passed.
C20_SubmitThenWait ==
  /\ sub.pc # "idle" => (wait = IdleWait /\ lastWait = "none")
  /\ lastSubmit.kind = "threw" => (wait = IdleWait /\ lastWait = "none")
  /\ (wait # IdleWait \/ lastWait # "none")
       => /\ sub.pc = "idle"
          /\ lastSubmit.kind = "handle"
          /\ lastSubmit.reqs[Len(lastSubmit.reqs)] = "eth_sendRawTransaction"
          /\ wait.txHash = lastSubmit.txHash
          /\ wait.txHash = <<"keccak256", lastSubmit.signedTx>>
          /\ <<wait.ignoreError, wait.pollingInterval, wait.timeout>>
               = lastSubmit.waitArgs

\* a transaction the node already knew, then polled twice with the caller's
\* ignoreError = false and timeout until the receipt came
C20_Witness ==
  /\ lastSubmit.kind = "handle" /\ lastSubmit.errClass = "JSONRPCError"
  /\ lastSubmit.waitArgs = <<FALSE, 1, MaxTimeout - 1>>
  /\ wait.polls = 2 /\ wait.requests = 2
  /\ lastWait = "receipt"

C25_DecimalRoundTrip ==
  util.fn = "roundTrip" =>
    /\ ~util.result.str.threw
    /\ ~util.result.back.threw
    /\ util.result.back.bn = util.arg.bn

\* 50 with three places is "0.05", which reads back as 50
C25_Witness ==
  /\ util.fn = "roundTrip"
  /\ util.arg.decimalPlaces = 3
  /\ util.result.str.str = <<"0", ".", "0", "5">>
  /\ util.result.back.bn = Int2Num(50)

\* C26: bnFromDecimalString accepts exactly the strings of digits with at most
\* one "." that do not start with "-", the empty string included and read as
\* 0; the fraction is padded or cut to decimalPlaces digits; any other string
\* is rejected with an error.
C26_AcceptsExactlyDecimals ==
  util.fn = "bnFromDecimalString" =>
    LET s == util.arg.decimalNumber
        matches == /\ \A i \in 1..Len(s) : IsDigitChar(s[i]) \/ s[i] = "."
                   /\ Cardinality(DotPositions(s)) <= 1
    IN  /\ util.result.threw <=> ~matches
        /\ s = <<>> => util.result.bn = Int2Num(0)
        /\ matches => util.result.bn = BNFromDecimalString(s, util.arg.decimalPlaces)

\* C22: selectAccount(n) returns a new Wallet with accountIndex n, the
\* recovery phrase and the RPC URL of the wallet it is called on, and an RPC
\* object no other wallet holds; the call leaves every existing wallet and its
\* RPC object as they were; and a connect() on one wallet changes neither the
\* URL nor the cached chain id of another wallet.
C22_SelectAccountIsolated ==
  /\ [][(heap' # heap /\ heap'.last.op = "selectAccount") =>
          LET w == heap'.last.this
              new == heap'.wallets[Len(heap'.wallets)]
          IN  /\ Len(heap'.wallets) = Len(heap.wallets) + 1
              /\ heap'.last.result = <<Len(heap'.wallets)>>
              /\ new.accountIndex = heap'.last.arg[1]
              /\ new.recoveryPhrase = heap.wallets[w].recoveryPhrase
              /\ heap'.rpcs[new.rpc].url = heap.rpcs[heap.wallets[w].rpc].url
              /\ \A v \in 1..Len(heap.wallets) :
                   /\ new.rpc # heap.wallets[v].rpc
                   /\ heap'.wallets[v] = heap.wallets[v]
                   /\ heap'.rpcs[heap.wallets[v].rpc] = heap.rpcs[heap.wallets[v].rpc]]_vars
  /\ [][(heap' # heap /\ heap'.last.op = "connect") =>
          \A v \in 1..Len(heap.wallets) :
            v # heap'.last.this =>
              /\ heap'.wallets[v] = heap.wallets[v]
              /\ heap'.rpcs[heap.wallets[v].rpc] = heap.rpcs[heap.wallets[v].rpc]]_vars

\* the wallet selectAccount(1) returned while the first was connected to u1
\* still has u1 and its cached chain id after the first has moved to u2
C22_Witness ==
  /\ Len(heap.wallets) = 2
  /\ heap.wallets[2].accountIndex = 1
  /\ heap.wallets[1].accountIndex = 0
  /\ heap.rpcs[heap.wallets[2].rpc] = [url |-> "u1", chainId |-> 1]
  /\ heap.rpcs[heap.wallets[1].rpc].url = "u2"
  /\ heap.last.op = "connect"
  /\ heap.last.this = 1

\* C23: a wallet holds at most one ERC20 client per checksum address; an
\* erc20 call with a valid address, in any casing, returns the client held
\* for its checksum address, the one an earlier call returned; different
\* addresses have different clients; an invalid address throws and adds
\* nothing.
C23_Erc20Memoized ==
  /\ [](\A w \in 1..Len(heap.wallets) :
          /\ \A e1, e2 \in heap.wallets[w].erc20s :
               (e1[1] = e2[1]) <=> (e1[2] = e2[2])
          /\ \A e \in heap.wallets[w].erc20s :
               /\ e[1] = checksumAddress(e[1])
               /\ heap.erc20s[e[2]].contractAddress = e[1])
  /\ [](heap.last.op = "erc20" =>
          IF isValidAddress(heap.last.arg[1])
            THEN /\ ~heap.last.threw
                 /\ <<checksumAddress(heap.last.arg[1]), heap.last.result[1]>>
                      \in heap.wallets[heap.last.this].erc20s
            ELSE heap.last.threw)
  /\ [][/\ \A w \in 1..Len(heap.wallets) :
             heap.wallets[w].erc20s \subseteq heap'.wallets[w].erc20s
        /\ (heap'.last.op = "erc20" /\ heap'.last.threw) =>
             (heap'.wallets = heap.wallets /\ heap'.erc20s = heap.erc20s)]_vars

\* the lower-case form of an address returns the client made for its
\* checksum form, not a second one, next to the client of another address
C23_Witness ==
  /\ heap.last.op = "erc20"
  /\ heap.last.arg = <<LowerCaseAddress, Int2Num(18)>>
  /\ heap.last.result = <<1>>
  /\ heap.erc20s[1].decimalPlaces = Int2Num(6)
  /\ heap.wallets[1].erc20s = {<<USDCAddress(1), 1>>, <<DigitAddress, 2>>}

\* C29: the selector cache only grows: an ethCall with memoizeSelector adds
\* funcSig -> selector, one without adds nothing, no call (setURL included)
\* removes or changes an entry, every entry is functionSelector(funcSig), and
\* the selector ethCall sends is functionSelector(funcSig) whether the cache
\* is hit or not.
C29_SelectorCacheAdditive ==
  /\ [](\A e \in heap.selectors : e[2] = functionSelector(e[1]))
  /\ [](heap.last.op = "ethCall" =>
          heap.last.result = <<functionSelector(heap.last.arg[1])>>)
  /\ [][/\ heap.selectors \subseteq heap'.selectors
        /\ (heap' # heap /\ heap'.last.op = "ethCall")
             => IF heap'.last.arg[2]
                  THEN heap'.selectors = heap.selectors
                         \cup {<<heap'.last.arg[1], functionSelector(heap'.last.arg[1])>>}
                  ELSE heap'.selectors = heap.selectors
        /\ (heap' # heap /\ heap'.last.op # "ethCall")
             => heap'.selectors = heap.selectors]_vars

\* after a memoized call and a setURL, a call that does not memoize has left
\* the cache with the one entry it had
C29_Witness ==
  /\ heap.selectors = {<<"nonces(address)", functionSelector("nonces(address)")>>}
  /\ heap.rpcs[1].url = "u2"
  /\ heap.last.op = "ethCall"
  /\ heap.last.arg = <<"DOMAIN_SEPARATOR()", FALSE>>

\* C27: a signPermit without a nonce option signs with the value of
\* nonces(owner) the node returns; two such calls with no change of
\* nonces(owner) on chain between them are issued with the same nonce; a
\* numeric nonce option, 0 included, is the nonce signed, and no
\* nonces(address) call is made for it.
C27_PermitNonce ==
  /\ [][(permit.pc = "nonces" /\ permit'.pc = "idle" /\ permit'.last.kind = "ok")
          => permit'.last.nonce = Int2Num(permit.nonces)]_vars
  /\ [](\A r \in {permit.last, permit.prev} :
          (r.fn = "signPermit" /\ r.kind = "ok") =>
            IF r.options.nonce.kind = "undefined"
              THEN r.reqs = <<"nonces(address)">>
              ELSE r.nonce = r.options.nonce /\ r.reqs = <<>>)
  /\ []((/\ permit.last.fn = "signPermit" /\ permit.prev.fn = "signPermit"
         /\ permit.last.kind = "ok" /\ permit.prev.kind = "ok"
         /\ permit.last.options.nonce.kind = "undefined"
         /\ permit.prev.options.nonce.kind = "undefined"
         /\ permit.last.chain = permit.prev.chain)
          => permit.last.nonce = permit.prev.nonce)

\* after one permit was confirmed, two calls without a nonce both got 1
C27_Witness ==
  /\ permit.nonces = 1
  /\ permit.last.fn = "signPermit" /\ permit.prev.fn = "signPermit"
  /\ permit.last.options.nonce = Undefined /\ permit.prev.options.nonce = Undefined
  /\ permit.last.reqs = <<"nonces(address)">>
  /\ permit.last.nonce = Int2Num(1) /\ permit.prev.nonce = Int2Num(1)

\* C28: signTransferAuthorization with a 32-byte nonce option signs and
\* returns that nonce; a random nonce is generated only when none is given;
\* the nonce returned is 32 bytes long and is the nonce hashed into the
\* digest.
C28_AuthorizationNonce ==
  (permit.last.fn = "signTransferAuthorization" /\ isValidAddress(permit.last.options.to)
     /\ IsPositiveDecimalString(permit.last.options.amount)) =>
    /\ (Len(strip0x(permit.last.options.nonce)) = 64
          /\ isHexString(permit.last.options.nonce))
         => /\ permit.last.kind = "ok"
            /\ permit.last.authNonce
                 = prepend0x([i \in 1..64 |-> ToLowerCase(strip0x(permit.last.options.nonce)[i])])
    /\ permit.last.random => ~Truthy(permit.last.options.nonce)
    /\ permit.last.kind = "ok"
         => /\ Len(permit.last.authNonce) = 66
            /\ permit.last.hashed = strip0x(permit.last.authNonce)

C30_DeferredResolvedFirst ==
  [][/\ (sub.pc \in {"to", "data"} /\ sub' # sub
           /\ (IF sub.pc = "to" THEN tx.toPromise ELSE tx.dataPromise))
          => \A k \in 1..Len(sub.reqs) :
               sub.reqs[k] \notin {"eth_chainId", "eth_getTransactionCount",
                                   "eth_gasPrice"}
     /\ (Len(sub'.reqs) = Len(sub.reqs) + 1
           /\ sub'.reqs[Len(sub'.reqs)] = "eth_estimateGas")
          => /\ sub.pc = "gasLimit"
             /\ sub.chainId # NoChainId
             /\ sub.nonce # Undefined
             /\ sub.gasPrice # Undefined]_vars

\* C31: the gas limit of every signed transaction is an integer from 21000
\* to 20000000, whether it was set by the caller or derived from the node's
\* eth_estimateGas answer.
C31_GasLimitInRange ==
  lastSubmit.signedTx # NoSignedTx =>
    /\ IsInteger(lastSubmit.signedTx[3])
    /\ ~NumLess(lastSubmit.signedTx[3], Int2Num(21000))
    /\ ~NumLess(Int2Num(20000000), lastSubmit.signedTx[3])

\* C32: when the contract answers DOMAIN_SEPARATOR() with anything but 32
\* bytes, signPermit / signTransferAuthorization fail without a signature and
\* no separator is cached, so that the next call asks the contract again: a
\* cached separator, and the separator of a finished signature, come from an
\* answer of 32 bytes.
C32_SeparatorOf32Bytes ==
  /\ usdc_domainSeparator # NoSeparator
       => 32 \in NodeSeparatorAnswers(usdc_domainSeparator[2], usdc_domainSeparator[3])
  /\ lastSign.kind = "ok"
       => 32 \in NodeSeparatorAnswers(lastSign.sep[2], lastSign.sep[3])

\* C33: waitForReceipt returns only a receipt that a request for the given
\* hash was answered with, never the null of a poll, and with a timeout of 0
\* it never ends with TimeoutError, whatever the number of polls.
C33_OnlyAReceiptReturned ==
  /\ lastWait = "receipt" =>
       /\ wait.lastPoll = "receipt"
       /\ wait.requests >= 1
       /\ ~ReceiptThrows(wait.txHash)
  /\ (wait.timeout = 0 /\ wait.pollingInterval >= 0) => lastWait # "TimeoutError"

\* a receipt returned by the fourth poll of a call without a timeout
C33_Witness ==
  /\ lastWait = "receipt"
  /\ wait.timeout = 0
  /\ wait.polls >= 4
  /\ wait.sleeps >= 3

\* C34: a deferred to / data that rejects, or resolves to an invalid address
\* or to a string that is not hexadecimal, makes sign() reject: the call
\* passes the await of a deferred value only with a valid address, or with a
\* hexadecimal string, in hand, and a call that ends there ends with an error,
\* with no transaction signed and no eth_sendRawTransaction request sent.
C34_BadDeferredRejects ==
  [][/\ (sub.pc = "to" /\ tx.toPromise /\ sub'.pc = "data")
          => \E to \in PromisedTos \ {"rejected"} :
               isValidAddress(to) /\ sub'.to = checksumAddress(to)
     /\ (sub.pc = "data" /\ tx.dataPromise /\ sub'.pc = "nonce")
          => \E data \in PromisedDatas \ {<<"rejected">>} :
               /\ ~ensureHexStringThrows(data)
               /\ sub'.data = ensureHexString(data, TRUE, FALSE)
     /\ (sub.pc \in {"to", "data"} /\ sub'.pc = "idle")
          => /\ lastSubmit'.kind = "threw"
             /\ lastSubmit'.signedTx = NoSignedTx
             /\ \A k \in 1..Len(lastSubmit'.reqs) :
                  lastSubmit'.reqs[k] # "eth_sendRawTransaction"]_vars

\* a call on a transaction with a deferred `to` that asked the node for the
\* chain id and then rejected with the error of a deferred value
C34_Witness ==
  /\ tx.toPromise
  /\ lastSubmit.kind = "threw"
  /\ lastSubmit.errClass = "Error"
  /\ lastSubmit.reqs = <<"eth_chainId">>

\* ------------------------------------------- transactions built by a helper
\* ERC20.transfer(to, amount) on the USDC client (grantAllowance,
\* spendAllowance, submitPermit and submitTransferAuthorization build theirs
\* the same way): `toPromise: this.getContractAddress()` starts the call when
\* the transaction is built, and the Transaction keeps its promise
Transfer(to) ==
  /\ ~tx_built
  /\ calls[1].op = "idle"
  /\ IF ~isValidAddress(to)
     THEN /\ tx_threw' = TRUE
          /\ UNCHANGED <<tx, tx_built, clientVars>>
     ELSE /\ GetContractAddress(1)
          /\ tx' = [NewTx EXCEPT !.toPromise = TRUE, !.dataPromise = TRUE]
          /\ tx_built' = TRUE
          /\ tx_threw' = FALSE

\* `to = ensureValidAddress(await this._toPromise)` when the promise is that
\* of the helper's getContractAddress() call: sign() resumes once that call
\* has ended, with its outcome
SignToOfHelper ==
  /\ sub.pc = "to"
  /\ tx.toPromise
  /\ calls[1].op = "idle"
  /\ IF lastAddress.kind = "ok" /\ isValidAddress(lastAddress.addr)
     THEN SubGoes([sub EXCEPT !.pc = "data", !.to = checksumAddress(lastAddress.addr)])
     ELSE SubThrows("sign", "Error", <<>>)
  /\ UNCHANGED <<rpcVars, builderVars>>

\* a helper builds a transaction, the wallet is connected to other nodes, the
\* transaction is signed
NextHelper ==
  \/ \E to \in {LowerCaseAddress, BadAddress} :
       Transfer(to) /\ UNCHANGED <<auxVars, submitVars, waitVars>>
  \/ \E u \in {"u1", "u2", "u3"} : Connect(u) /\ UNCHANGED txVars
  \/ ChainIdResult(1) /\ UNCHANGED txVars
  \/ RequestError(1) /\ UNCHANGED txVars
  \/ ResumeContractAddress(1) /\ UNCHANGED txVars
  \/ TransactionSign /\ UNCHANGED <<auxVars, usdcVars, calls, waitVars>>
  \/ \E ok \in BOOLEAN : SignChainId(ok) /\ UNCHANGED <<auxVars, usdcVars, calls, waitVars, read>>
  \/ SignToOfHelper /\ UNCHANGED <<auxVars, usdcVars, calls, waitVars, read>>
  \/ SignData /\ UNCHANGED <<auxVars, usdcVars, calls, waitVars, read>>
  \/ SignNonce /\ UNCHANGED <<auxVars, usdcVars, calls, waitVars, read>>
  \/ SignGasPrice /\ UNCHANGED <<auxVars, usdcVars, calls, waitVars, read>>
  \/ SignGasLimit /\ UNCHANGED <<auxVars, usdcVars, calls, waitVars, read>>
  \/ SignFields /\ UNCHANGED <<auxVars, usdcVars, calls, waitVars, read>>

HelperSpec == InitTx /\ [][NextHelper]_vars

\* C35: the `to` of a signed transaction that a helper built is the USDC
\* address of the chain whose id is signed into v, also when connect() changed
\* the node between the helper call and sign().
C35_ToOfSignedChain ==
  lastSubmit.kind = "signed" =>
    lastSubmit.signedTx[4] = USDCAddress((lastSubmit.signedTx[7] - 35) \div 2)

\* --------------------------------------------- sign() calls and the count
\* the nonce step on the node whose count `chain` follows; a nonce fetched is
\* noted next to the one fetched before it at the same count
SignNonceOfChain ==
  /\ SignNonceAt(chain.txCount)
  /\ chain' = IF ~NonceSet(tx.nonce) /\ sub'.pc = "gasPrice"
              THEN [chain EXCEPT !.fetched =
                      IF chain.fetched = <<>> THEN <<sub'.nonce>>
                      ELSE <<chain.fetched[Len(chain.fetched)], sub'.nonce>>]
              ELSE chain

\* a transaction of the account is mined: the count at "latest" changes
CountChanges ==
  /\ \E n \in NodeNonces \ {chain.txCount} :
       chain' = [txCount |-> n, fetched |-> <<>>]
  /\ UNCHANGED <<clientVars, builderVars, submitVars, waitVars>>

NextNonce ==
  \/ \E o \in SubmitOptions :
       /\ o.to = LowerCaseAddress /\ o.weiValue = NullStr
       /\ o.gasLimit # Undefined /\ o.gasPriceWei # Undefined
       /\ ~o.toPromise /\ ~o.dataPromise
       /\ New(o) /\ UNCHANGED <<auxVars, clientVars, submitVars, waitVars>>
  \/ \E n \in {Undefined, Int2Num(5)} :
       sub.pc = "idle" /\ SetNonce(n) /\ UNCHANGED <<auxVars, clientVars, submitVars, waitVars>>
  \/ TransactionSign /\ UNCHANGED <<auxVars, usdcVars, calls, waitVars>>
  \/ Submit /\ UNCHANGED <<auxVars, usdcVars, calls, waitVars>>
  \/ \E ok \in BOOLEAN : SignChainId(ok) /\ UNCHANGED <<auxVars, usdcVars, calls, waitVars, read>>
  \/ SignTo /\ UNCHANGED <<auxVars, usdcVars, calls, waitVars, read>>
  \/ SignData /\ UNCHANGED <<auxVars, usdcVars, calls, waitVars, read>>
  \/ SignNonceOfChain /\ UNCHANGED <<util, heap, permit, usdcVars, calls, waitVars, read>>
  \/ SignGasPrice /\ UNCHANGED <<auxVars, usdcVars, calls, waitVars, read>>
  \/ SignGasLimit /\ UNCHANGED <<auxVars, usdcVars, calls, waitVars, read>>
  \/ SignFields /\ UNCHANGED <<auxVars, usdcVars, calls, waitVars, read>>
  \/ SendAccepted /\ UNCHANGED <<auxVars, usdcVars, calls, waitVars, read>>
  \/ CountChanges /\ UNCHANGED <<util, heap, permit>>

NonceSpec == InitTx /\ [][NextNonce]_vars

C37_SignLeavesBuilder ==
  [][/\ (sub' # sub \/ lastSubmit' # lastSubmit)
          => tx' = tx /\ tx_built' = tx_built /\ tx_threw' = tx_threw
     /\ (sub.pc = "idle" /\ sub'.pc = "chainId")
          => /\ sub'.reqs = <<>>
             /\ sub'.to = NullAddr /\ sub'.data = NullStr
             /\ sub'.nonce = Undefined
             /\ sub'.gasPrice = Undefined /\ sub'.gasLimit = Undefined
     /\ (sub.pc = "fields" /\ lastSubmit'.kind = "signed")
          => /\ ~NonceSet(tx.nonce)
                  => \E k \in 1..Len(lastSubmit'.reqs) :
                       lastSubmit'.reqs[k] = "eth_getTransactionCount"
             /\ tx.gasPrice = Undefined
                  => \E k \in 1..Len(lastSubmit'.reqs) :
                       lastSubmit'.reqs[k] = "eth_gasPrice"
             /\ tx.gasLimit = Undefined
                  => \E k \in 1..Len(lastSubmit'.reqs) :
                       lastSubmit'.reqs[k] = "eth_estimateGas"]_vars

\* a transaction signed with a resolved `to`, a fetched nonce, gas price and
\* gas limit, and the builder still without any of them
C37_Witness ==
  /\ lastSubmit.kind = "signed"
  /\ tx.toPromise /\ tx.to = NullAddr /\ lastSubmit.signedTx[4] # NullAddr
  /\ tx.nonce = Undefined /\ lastSubmit.signedTx[1] = Int2Num(7)
  /\ tx.gasPrice = Undefined /\ tx.gasLimit = Undefined
  /\ Len(lastSubmit.reqs) = 3

\* C38: a setter call that throws leaves every field of the builder as it
\* was, and one that returns changes its own field only (setWeiValue and
\* setETHValue the value, setGasPriceWei and setGasPriceGwei the gas price)
\* and returns the builder it was called on; so a setter step changes at most
\* one field, and none when it throws.
C38_SetterFrame ==
  /\ [](/\ \A to \in {NullAddr, LowerCaseAddress, DigitAddress, BadAddress} :
             /\ setTo(tx, to).threw => setTo(tx, to).tx = tx
             /\ setTo(tx, to).tx = [tx EXCEPT !.to = setTo(tx, to).tx.to]
        /\ \A w \in WeiValues :
             /\ setWeiValue(tx, w).threw => setWeiValue(tx, w).tx = tx
             /\ setWeiValue(tx, w).tx = [tx EXCEPT !.value = setWeiValue(tx, w).tx.value]
        /\ \A e \in ETHValues :
             /\ setETHValue(tx, e).threw => setETHValue(tx, e).tx = tx
             /\ setETHValue(tx, e).tx = [tx EXCEPT !.value = setETHValue(tx, e).tx.value]
        /\ \A g \in GasLimits :
             /\ setGasLimit(tx, g).threw => setGasLimit(tx, g).tx = tx
             /\ setGasLimit(tx, g).tx = [tx EXCEPT !.gasLimit = setGasLimit(tx, g).tx.gasLimit]
        /\ \A p \in GasPricesWei :
             /\ setGasPriceWei(tx, p).threw => setGasPriceWei(tx, p).tx = tx
             /\ setGasPriceWei(tx, p).tx =
                  [tx EXCEPT !.gasPrice = setGasPriceWei(tx, p).tx.gasPrice]
        /\ \A p \in GasPricesGwei :
             /\ setGasPriceGwei(tx, p).threw => setGasPriceGwei(tx, p).tx = tx
             /\ setGasPriceGwei(tx, p).tx =
                  [tx EXCEPT !.gasPrice = setGasPriceGwei(tx, p).tx.gasPrice]
        /\ \A d \in {NullStr, <<>>, <<"0", "x", "a", "b">>, <<"a", "b", "c">>, <<"z", "z">>} :
             /\ setData(tx, d).threw => setData(tx, d).tx = tx
             /\ setData(tx, d).tx = [tx EXCEPT !.data = setData(tx, d).tx.data]
        /\ \A n \in {Undefined, NaN, Int2Num(0), Int2Num(5), Int2Num(-1), Num(FALSE, <<0>>, <<5>>)} :
             /\ setNonce(tx, n).threw => setNonce(tx, n).tx = tx
             /\ setNonce(tx, n).tx = [tx EXCEPT !.nonce = setNonce(tx, n).tx.nonce])
  /\ [][(tx_built /\ tx_built')
          => /\ tx_threw' => tx' = tx
             /\ Cardinality({f \in DOMAIN tx : tx'[f] # tx[f]}) <= 1
             /\ tx'.toPromise = tx.toPromise /\ tx'.dataPromise = tx.dataPromise]_vars

\* a setter call has thrown on a builder whose to, value, data and nonce are
\* set, and they are still set
C38_Witness ==
  /\ tx_built /\ tx_threw
  /\ tx.to # NullAddr /\ tx.value # Undefined
  /\ tx.data # NullStr /\ tx.nonce = Int2Num(5)

\* C39: a waitForReceipt call whose txHash is not 0x and 64 hexadecimal digits
\* ends with an error, whatever ignoreError and the timeout are, and sends
\* no eth_getTransactionReceipt request.
C39_BadHashEndsWithError ==
  /\ [](ReceiptThrows(wait.txHash) => wait.requests = 0)
  /\ [](wait.pc # "idle" /\ ReceiptThrows(wait.txHash)
          => <>(wait.pc = "idle" /\ lastWait \in {"Error", "TimeoutError"}))

====
